---- MODULE Spec2Model ----
(***************************************************************************)
(* Model of the LLM orchestration core of chatapp-v2-express:              *)
(*   - the model registry (MODEL_PROVIDER_MAP, getProviderForModel,        *)
(*     getAvailableModels),                                                *)
(*   - the dispatch of streamChat / getChatCompletion to a provider        *)
(*     adapter,                                                            *)
(*   - the history assembler getMessageHistory with its summarizer.        *)
(*                                                                         *)
(* Text whose characters the code inspects (model identifiers) is a        *)
(* sequence of one-character strings; other text is an opaque string.      *)
(***************************************************************************)
EXTENDS Integers, Sequences, FiniteSets, TLC

VARIABLES
    providers,      \* this.providers: provider -> adapter constructed?
    call,           \* the registry / dispatch call the last operation was
    adapterCalls,   \* adapter methods invoked by the last operation, in order
    messages,       \* persisted Message rows of the conversation, creation order
    systemPrompt,   \* conversation.systemPrompt: <<>> is null, <<s>> is the text s
    history,        \* the getMessageHistory call the last operation was
    construction,   \* how the orchestrator was constructed
    other,          \* the chat request that is suspended at an await
    previews,       \* the conversation row and the addMessage calls in flight
    lookup,         \* the last GET /conversations/:conversationId request
    vendorRequest,  \* the last request the Anthropic adapter sent
    norm,           \* the chunk normalization the last operation was
    completion,     \* the adapter full completion the last operation was
    scrub,          \* the summary request the last operation was
    chat,           \* the POST /api/chat handler: its position and locals
    response,       \* what the handler has put on the HTTP response
    stream,         \* the vendor stream of the chat request
    created,        \* the conversation the chat request created
    dbCalls         \* the database calls of the chat request, in order

pureVars ==
    <<norm, completion, scrub, lookup, vendorRequest, construction, previews,
      other>>

chatVars == <<chat, response, stream, created, dbCalls>>

vars == <<providers, call, adapterCalls, messages, systemPrompt, history,
          pureVars, chatVars>>

----------------------------------------------------------------------------
(* Bounds *)

\* The most rows the conversation holds.
MaxMsgs == 25

\* The leading rows whose role is unconstrained; later rows follow the chat
\* route's alternation.
MaxFreeRows == 2

\* The most chunks a vendor stream emits.
MaxChunks == 2

\* The most messages handed to the Summarizer.
MaxOlder == 2

----------------------------------------------------------------------------
(* types/index.ts *)

OPENAI == "openai"
ANTHROPIC == "anthropic"
Provider == {OPENAI, ANTHROPIC}

gpt_4o == <<"g", "p", "t", "-", "4", "o">>
gpt_4o_mini == <<"g", "p", "t", "-", "4", "o", "-", "m", "i", "n", "i">>
gpt_4_turbo == <<"g", "p", "t", "-", "4", "-", "t", "u", "r", "b", "o">>
gpt_4 == <<"g", "p", "t", "-", "4">>
gpt_3_5_turbo == <<"g", "p", "t", "-", "3", ".", "5", "-", "t", "u", "r", "b", "o">>
claude_3_5_sonnet == <<"c", "l", "a", "u", "d", "e", "-", "3", "-", "5", "-", "s", "o", "n", "n", "e", "t", "-", "2", "0", "2", "4", "0", "6", "2", "0">>
claude_3_opus == <<"c", "l", "a", "u", "d", "e", "-", "3", "-", "o", "p", "u", "s", "-", "2", "0", "2", "4", "0", "2", "2", "9">>
claude_3_sonnet == <<"c", "l", "a", "u", "d", "e", "-", "3", "-", "s", "o", "n", "n", "e", "t", "-", "2", "0", "2", "4", "0", "2", "2", "9">>
claude_3_haiku == <<"c", "l", "a", "u", "d", "e", "-", "3", "-", "h", "a", "i", "k", "u", "-", "2", "0", "2", "4", "0", "3", "0", "7">>

\* The object literal, as its own entries in insertion order.
MODEL_PROVIDER_MAP ==
    << [model |-> gpt_4o,            provider |-> OPENAI],
       [model |-> gpt_4o_mini,       provider |-> OPENAI],
       [model |-> gpt_4_turbo,       provider |-> OPENAI],
       [model |-> gpt_4,             provider |-> OPENAI],
       [model |-> gpt_3_5_turbo,     provider |-> OPENAI],
       [model |-> claude_3_5_sonnet, provider |-> ANTHROPIC],
       [model |-> claude_3_opus,     provider |-> ANTHROPIC],
       [model |-> claude_3_sonnet,   provider |-> ANTHROPIC],
       [model |-> claude_3_haiku,    provider |-> ANTHROPIC] >>

CONVERSATION_MESSAGES_THRESHOLD == 20

\* Object.keys(MODEL_PROVIDER_MAP)
TableKeys == [i \in 1..Len(MODEL_PROVIDER_MAP) |-> MODEL_PROVIDER_MAP[i].model]

TableKeySet == {TableKeys[i] : i \in 1..Len(TableKeys)}

\* MODEL_PROVIDER_MAP is a plain object literal: besides its own entries it
\* inherits the members of Object.prototype, which the `in` operator and a
\* property read both see.
ObjectPrototypeKeys ==
    { <<"c", "o", "n", "s", "t", "r", "u", "c", "t", "o", "r">>,
      <<"t", "o", "S", "t", "r", "i", "n", "g">>,
      <<"v", "a", "l", "u", "e", "O", "f">>,
      <<"h", "a", "s", "O", "w", "n", "P", "r", "o", "p", "e", "r", "t", "y">>,
      <<"_", "_", "p", "r", "o", "t", "o", "_", "_">> }

\* What a read of an inherited member yields: a function or object of
\* Object.prototype, not a Provider.
InheritedMember == "[Object.prototype member]"

\* model in MODEL_PROVIDER_MAP
InTable(model) == model \in TableKeySet \/ model \in ObjectPrototypeKeys

\* MODEL_PROVIDER_MAP[model], for a model that is `in` the table
TableGet(model) ==
    IF model \in TableKeySet
    THEN MODEL_PROVIDER_MAP[CHOOSE i \in 1..Len(MODEL_PROVIDER_MAP) :
                                MODEL_PROVIDER_MAP[i].model = model].provider
    ELSE InheritedMember

\* String.prototype.startsWith
StartsWith(s, prefix) ==
    /\ Len(s) >= Len(prefix)
    /\ SubSeq(s, 1, Len(prefix)) = prefix

----------------------------------------------------------------------------
(* Outcomes of a call: a returned value or a thrown Error. *)

NoError == [name |-> "", subject |-> <<>>, list |-> <<>>]

\* `Unsupported model: ${model}. Available models: ${keys.join(', ')}`
UnsupportedModelError(model) ==
    [name |-> "Unsupported model", subject |-> model, list |-> TableKeys]

\* Object.keys(this.providers), in the order of the field initialiser
ProviderKeys == <<OPENAI, ANTHROPIC>>

\* `Provider ${providerName} is not initialized. Available providers: ...`
ProviderNotInitializedError(provs, providerName) ==
    [name |-> "Provider is not initialized",
     subject |-> <<providerName>>,
     list |-> [i \in 1..Len(SelectSeq(ProviderKeys, LAMBDA k : provs[k])) |->
                 <<SelectSeq(ProviderKeys, LAMBDA k : provs[k])[i]>>]]

\* The failure a vendor stream raises.
VendorFault == [name |-> "vendor stream fault", subject |-> <<>>, list |-> <<>>]

\* A vendor's reply to one request: it faults, or its deltas concatenate to text.
VendorReplies ==
    { [fault |-> TRUE,  text |-> ""],
      [fault |-> FALSE, text |-> ""],
      [fault |-> FALSE, text |-> "- digest"] }

----------------------------------------------------------------------------
(* services/llm/index.ts: registry and dispatch *)

getProviderForModel(model) ==
    IF InTable(model)
    THEN [threw |-> FALSE, value |-> TableGet(model), error |-> NoError]
    ELSE IF StartsWith(model, <<"g", "p", "t", "-">>)
            \/ StartsWith(model, <<"t", "e", "x", "t", "-">>)
    THEN [threw |-> FALSE, value |-> OPENAI, error |-> NoError]
    ELSE IF StartsWith(model, <<"c", "l", "a", "u", "d", "e", "-">>)
    THEN [threw |-> FALSE, value |-> ANTHROPIC, error |-> NoError]
    ELSE [threw |-> TRUE, value |-> "", error |-> UnsupportedModelError(model)]

\* this.providers[providerName] is an adapter (truthy)
HasAdapter(provs, providerName) ==
    providerName \in Provider /\ provs[providerName]

\* streamChat without the availability check of lines 60-69.
streamChat_NoAvailabilityCheck(provs, model) ==
    LET r == getProviderForModel(model) IN
    IF r.threw
    THEN [threw |-> TRUE, provider |-> "", error |-> r.error]
    ELSE [threw |-> FALSE, provider |-> r.value, error |-> NoError]

\* The part streamChat runs before it delegates (lines 57-69): the adapter to
\* delegate to, or the error thrown.
streamChat(provs, model) ==
    LET r == getProviderForModel(model) IN
    IF r.threw
    THEN [threw |-> TRUE, provider |-> "", error |-> r.error]
    ELSE IF ~HasAdapter(provs, r.value)
    THEN [threw |-> TRUE, provider |-> "",
          error |-> ProviderNotInitializedError(provs, r.value)]
    ELSE [threw |-> FALSE, provider |-> r.value, error |-> NoError]

\* The part getChatCompletion runs before it delegates (lines 82-94).
getChatCompletion(provs, model) ==
    LET r == getProviderForModel(model) IN
    IF r.threw
    THEN [threw |-> TRUE, provider |-> "", error |-> r.error]
    ELSE IF ~HasAdapter(provs, r.value)
    THEN [threw |-> TRUE, provider |-> "",
          error |-> ProviderNotInitializedError(provs, r.value)]
    ELSE [threw |-> FALSE, provider |-> r.value, error |-> NoError]

\* Object.entries(MODEL_PROVIDER_MAP).filter(provider === providerName).map(model)
ModelsOf(providerName) ==
    LET hits == SelectSeq(MODEL_PROVIDER_MAP, LAMBDA e : e.provider = providerName)
    IN  [i \in 1..Len(hits) |-> hits[i].model]

\* getAvailableModels without the test of line 106: an unconstructed provider
\* is listed with no models.
getAvailableModels_EveryProvider(provs) ==
    [p \in Provider |-> IF provs[p] THEN ModelsOf(p) ELSE <<>>]

getAvailableModels(provs) ==
    [p \in {k \in Provider : provs[k]} |-> ModelsOf(p)]

----------------------------------------------------------------------------
(* services/database.ts and the Message table *)

RecognizedRoles == {"user", "assistant", "system"}

\* Message.role is a free String column.
Roles == RecognizedRoles \cup {"tool"}

\* The role the chat route persists at a position: a user message, then the
\* assistant's answer.
ExpectedRole(i) == IF i % 2 = 1 THEN "user" ELSE "assistant"

\* prisma.message.create in addMessage: the n-th row created.
NewRow(n, role) == [id |-> n, role |-> role, content |-> "m" \o ToString(n)]

\* include: { messages: true } carries no orderBy: PostgreSQL returns the rows
\* in heap order, which is creation order until a freed slot is reused; then
\* the newest row comes back first.
LoadOrders(rows) ==
    {rows} \cup
    (IF Len(rows) >= 2
     THEN {<<rows[Len(rows)]>> \o SubSeq(rows, 1, Len(rows) - 1)}
     ELSE {})

----------------------------------------------------------------------------
(* services/llm/index.ts: history assembler and summarizer *)

Max(a, b) == IF a >= b THEN a ELSE b

\* slice(-n) that keeps the head of the array in front.
SliceLast_KeepHead(s, n) ==
    IF Len(s) > n THEN <<s[1]>> \o SubSeq(s, Len(s) - n + 2, Len(s)) ELSE s

\* Array.prototype.slice(-n), n > 0
SliceLast(s, n) == SubSeq(s, Max(Len(s) - n, 0) + 1, Len(s))

\* slice(0, -n) cutting one element too many.
SliceButLast_OneShort(s, n) == SubSeq(s, 1, Max(Len(s) - n - 1, 0))

\* Array.prototype.slice(0, -n), n > 0
SliceButLast(s, n) == SubSeq(s, 1, Max(Len(s) - n, 0))

\* conversation.systemPrompt is truthy: neither null nor the empty string
Truthy(prompt) == prompt # <<>> /\ prompt[1] # ""

\* Lines 134-139 without the filter on the role.
Convert_NoFilter(loaded) ==
    [i \in 1..Len(loaded) |->
        [role |-> loaded[i].role, content |-> loaded[i].content]]

\* Lines 134-139: filter to the recognized roles, map to ChatMessage.
Convert(loaded) ==
    LET kept == SelectSeq(loaded, LAMBDA msg : msg.role \in RecognizedRoles)
    IN  [i \in 1..Len(kept) |->
            [role |-> kept[i].role, content |-> kept[i].content]]

\* Lines 134-144 with push in place of unshift.
Assemble_PromptLast(loaded, prompt) ==
    IF Truthy(prompt)
    THEN Convert(loaded) \o <<[role |-> "system", content |-> prompt[1]]>>
    ELSE Convert(loaded)

\* Lines 134-144: the local `messages` after the unshift.
Assemble(loaded, prompt) ==
    IF Truthy(prompt)
    THEN <<[role |-> "system", content |-> prompt[1]]>> \o Convert(loaded)
    ELSE Convert(loaded)

OpenAINotInitializedError ==
    [name |-> "OpenAI provider is not initialized", subject |-> <<>>, list |-> <<>>]

ConversationNotFoundError(conversationId) ==
    [name |-> "Conversation not found", subject |-> <<conversationId>>, list |-> <<>>]

\* briefSummaryOfConversationHistory with another model on line 199.
briefSummaryOfConversationHistory_OtherModel(provs, reply) ==
    IF ~provs[OPENAI]
    THEN [threw |-> TRUE, text |-> "", error |-> OpenAINotInitializedError,
          calls |-> <<>>]
    ELSE LET model == claude_3_haiku
             d == getChatCompletion(provs, model)
         IN  IF d.threw
             THEN [threw |-> TRUE, text |-> "", error |-> d.error, calls |-> <<>>]
             ELSE [threw |-> reply.fault,
                   text |-> reply.text,
                   error |-> IF reply.fault THEN VendorFault ELSE NoError,
                   calls |-> << [provider |-> d.provider,
                                 method |-> "getFullCompletionFromStream",
                                 model |-> model] >>]

\* briefSummaryOfConversationHistory: the summary text or the error, and the
\* adapter methods it invoked.
briefSummaryOfConversationHistory(provs, reply) ==
    IF ~provs[OPENAI]
    THEN [threw |-> TRUE, text |-> "", error |-> OpenAINotInitializedError,
          calls |-> <<>>]
    ELSE LET model == gpt_4o_mini
             d == getChatCompletion(provs, model)
         IN  IF d.threw
             THEN [threw |-> TRUE, text |-> "", error |-> d.error, calls |-> <<>>]
             ELSE [threw |-> reply.fault,
                   text |-> reply.text,
                   error |-> IF reply.fault THEN VendorFault ELSE NoError,
                   calls |-> << [provider |-> d.provider,
                                 method |-> "getFullCompletionFromStream",
                                 model |-> model] >>]

HistoryOutcome(threw, error, assembled, result, summarized, failed, calls) ==
    [threw |-> threw, error |-> error, assembled |-> assembled,
     result |-> result, summarized |-> summarized, summaryFailed |-> failed,
     calls |-> calls]

\* getMessageHistory without lines 151-154: the summarize flag is ignored.
getMessageHistory_IgnoreFlag(provs, conversationId, found, loaded, prompt, summarize, reply) ==
    IF ~found
    THEN HistoryOutcome(TRUE, ConversationNotFoundError(conversationId),
                        <<>>, <<>>, <<>>, FALSE, <<>>)
    ELSE
    LET msgs == Assemble(loaded, prompt) IN
    IF Len(msgs) <= CONVERSATION_MESSAGES_THRESHOLD
    THEN HistoryOutcome(FALSE, NoError, msgs, msgs, <<>>, FALSE, <<>>)
    ELSE
    LET recentMessages == SliceLast(msgs, CONVERSATION_MESSAGES_THRESHOLD)
        olderMessages == SliceButLast(msgs, CONVERSATION_MESSAGES_THRESHOLD)
    IN  IF Len(olderMessages) > 0
        THEN LET s == briefSummaryOfConversationHistory(provs, reply) IN
             IF s.threw
             THEN HistoryOutcome(FALSE, NoError, msgs, recentMessages,
                                 <<olderMessages>>, TRUE, s.calls)
             ELSE HistoryOutcome(FALSE, NoError, msgs,
                      << [role |-> "system",
                          content |-> "Summary of previous conversation: \n"
                                      \o s.text] >> \o recentMessages,
                      <<olderMessages>>, FALSE, s.calls)
        ELSE HistoryOutcome(FALSE, NoError, msgs, recentMessages,
                            <<>>, FALSE, <<>>)

\* getMessageHistory whose catch block (lines 174-178) rethrows.
getMessageHistory_Rethrow(provs, conversationId, found, loaded, prompt, summarize, reply) ==
    IF ~found
    THEN HistoryOutcome(TRUE, ConversationNotFoundError(conversationId),
                        <<>>, <<>>, <<>>, FALSE, <<>>)
    ELSE
    LET msgs == Assemble(loaded, prompt) IN
    IF Len(msgs) <= CONVERSATION_MESSAGES_THRESHOLD
    THEN HistoryOutcome(FALSE, NoError, msgs, msgs, <<>>, FALSE, <<>>)
    ELSE IF ~summarize
    THEN HistoryOutcome(FALSE, NoError, msgs, msgs, <<>>, FALSE, <<>>)
    ELSE
    LET recentMessages == SliceLast(msgs, CONVERSATION_MESSAGES_THRESHOLD)
        olderMessages == SliceButLast(msgs, CONVERSATION_MESSAGES_THRESHOLD)
    IN  IF Len(olderMessages) > 0
        THEN LET s == briefSummaryOfConversationHistory(provs, reply) IN
             IF s.threw
             THEN HistoryOutcome(TRUE, s.error, msgs, <<>>,
                                 <<olderMessages>>, TRUE, s.calls)
             ELSE HistoryOutcome(FALSE, NoError, msgs,
                      << [role |-> "system",
                          content |-> "Summary of previous conversation: \n"
                                      \o s.text] >> \o recentMessages,
                      <<olderMessages>>, FALSE, s.calls)
        ELSE HistoryOutcome(FALSE, NoError, msgs, recentMessages,
                            <<>>, FALSE, <<>>)

\* getMessageHistory, given the conversation the store returned (found, its
\* rows as loaded, its systemPrompt) and the vendor's reply to a summary
\* request.  `summarized` lists the arguments of the Summarizer invocations.
getMessageHistory(provs, conversationId, found, loaded, prompt, summarize, reply) ==
    IF ~found
    THEN HistoryOutcome(TRUE, ConversationNotFoundError(conversationId),
                        <<>>, <<>>, <<>>, FALSE, <<>>)
    ELSE
    LET msgs == Assemble(loaded, prompt) IN
    IF Len(msgs) <= CONVERSATION_MESSAGES_THRESHOLD
    THEN HistoryOutcome(FALSE, NoError, msgs, msgs, <<>>, FALSE, <<>>)
    ELSE IF ~summarize
    THEN HistoryOutcome(FALSE, NoError, msgs, msgs, <<>>, FALSE, <<>>)
    ELSE
    LET recentMessages == SliceLast(msgs, CONVERSATION_MESSAGES_THRESHOLD)
        olderMessages == SliceButLast(msgs, CONVERSATION_MESSAGES_THRESHOLD)
    IN  IF Len(olderMessages) > 0
        THEN LET s == briefSummaryOfConversationHistory(provs, reply) IN
             IF s.threw
             THEN HistoryOutcome(FALSE, NoError, msgs, recentMessages,
                                 <<olderMessages>>, TRUE, s.calls)
             ELSE HistoryOutcome(FALSE, NoError, msgs,
                      << [role |-> "system",
                          content |-> "Summary of previous conversation: \n"
                                      \o s.text] >> \o recentMessages,
                      <<olderMessages>>, FALSE, s.calls)
        ELSE HistoryOutcome(FALSE, NoError, msgs, recentMessages,
                            <<>>, FALSE, <<>>)

----------------------------------------------------------------------------
(* Vendor chunks.  A chunk is a JavaScript object; the model keeps the       *)
(* members the code reads: chunk.choices (an array of entries with a delta), *)
(* chunk.delta, delta.content and delta.text, each present or absent.  Text  *)
(* is a tuple of characters, so that '' is <<>>, += is \o and length and     *)
(* substring are computed.                                                   *)

Hello == <<"H", "e", "l", "l", "o">>

There == <<" ", "t", "h", "e", "r", "e">>

Hi == <<"h", "i">>

\* A text of 51 characters.
Long ==
    <<"T", "h", "e", " ", "q", "u", "i", "c", "k", " ", "b", "r", "o", "w",
       "n", " ", "f", "o", "x", " ", "j", "u", "m", "p", "s", " ", "o",
       "v", "e", "r", " ", "t", "h", "e", " ", "l", "a", "z", "y", " ",
       "d", "o", "g", ",", " ", "t", "w", "i", "c", "e", ".">>

Yo == <<"y", "o">>

\* String(undefined)
Undefined == <<"u", "n", "d", "e", "f", "i", "n", "e", "d">>

AbsentDelta ==
    [present |-> FALSE, hasContent |-> FALSE, content |-> <<>>,
     hasText |-> FALSE, text |-> <<>>]

\* delta: {}  (or content: null)
EmptyDelta == [AbsentDelta EXCEPT !.present = TRUE]

\* delta: {content: s}
ContentDelta(s) ==
    [AbsentDelta EXCEPT !.present = TRUE, !.hasContent = TRUE, !.content = s]

\* delta: {text: s}
TextDelta(s) ==
    [AbsentDelta EXCEPT !.present = TRUE, !.hasText = TRUE, !.text = s]

Chunk(hasChoices, choices, delta) ==
    [hasChoices |-> hasChoices, choices |-> choices, delta |-> delta]

\* What the OpenAI SDK streams (ChatCompletionChunk): choices is an array,
\* empty or of entries that carry a delta, whose content may be missing.
OpenAIChunks ==
    { Chunk(TRUE, <<>>, AbsentDelta) } \cup
    { Chunk(TRUE, <<[delta |-> d]>>, AbsentDelta) :
        d \in {EmptyDelta, ContentDelta(<<>>), ContentDelta(Hello),
               ContentDelta(There)} }

\* What the Anthropic SDK streams (message stream events): no choices; a
\* delta on content_block_delta (text) and message_delta (no text) events.
AnthropicChunks ==
    { Chunk(FALSE, <<>>, d) :
        d \in {AbsentDelta, EmptyDelta, TextDelta(<<>>), TextDelta(Hello),
               TextDelta(There)} }

VendorChunks(provider) ==
    IF provider = OPENAI THEN OpenAIChunks ELSE AnthropicChunks

\* Shapes neither SDK declares.
OtherChunks ==
    { Chunk(TRUE, <<[delta |-> AbsentDelta]>>, AbsentDelta),
      Chunk(TRUE, <<[delta |-> AbsentDelta]>>, TextDelta(Yo)),
      Chunk(TRUE, <<>>, TextDelta(Yo)),
      Chunk(TRUE, <<[delta |-> ContentDelta(Hi)]>>, TextDelta(Yo)),
      Chunk(TRUE, <<[delta |-> ContentDelta(Hi)], [delta |-> AbsentDelta]>>,
            AbsentDelta),
      Chunk(FALSE, <<>>, ContentDelta(Hi)) }

AllChunks == OpenAIChunks \cup AnthropicChunks \cup OtherChunks

\* A vendor stream: the chunks it emits, then its end or a fault.
Streams(universe) ==
    { [chunks |-> c, fault |-> f] :
        c \in UNION { [1..n -> universe] : n \in 0..MaxChunks },
        f \in BOOLEAN }

\* Reading a member of undefined.
TypeError ==
    [name |-> "TypeError: Cannot read properties of undefined",
     subject |-> <<>>, list |-> <<>>]

Text(s) == [threw |-> FALSE, text |-> s, error |-> NoError]

Thrown(e) == [threw |-> TRUE, text |-> <<>>, error |-> e]

\* routes/chat.ts, lines 138-148: the text the chat route takes from a chunk.
ExtractContent(chunk) ==
    IF chunk.hasChoices /\ Len(chunk.choices) > 0
    THEN LET delta == chunk.choices[1].delta IN
         IF ~delta.present
         THEN Thrown(TypeError)
         ELSE Text(IF delta.hasContent THEN delta.content ELSE <<>>)
    ELSE IF chunk.delta.present /\ chunk.delta.hasText /\ chunk.delta.text # <<>>
    THEN Text(chunk.delta.text)
    ELSE Text(<<>>)

\* openai.ts, lines 64-68, with `fullContent += delta.content`.
OpenAIChunkText_NoDefault(chunk) ==
    IF chunk.hasChoices /\ Len(chunk.choices) > 0
    THEN LET delta == chunk.choices[1].delta IN
         IF ~delta.present
         THEN Thrown(TypeError)
         ELSE Text(IF delta.hasContent THEN delta.content ELSE Undefined)
    ELSE Text(<<>>)

\* openai.ts, lines 64-68: what getFullCompletionFromStream adds for a chunk.
OpenAIChunkText(chunk) ==
    IF chunk.hasChoices /\ Len(chunk.choices) > 0
    THEN LET delta == chunk.choices[1].delta IN
         IF ~delta.present
         THEN Thrown(TypeError)
         ELSE Text(IF delta.hasContent THEN delta.content ELSE <<>>)
    ELSE Text(<<>>)

\* anthropic.ts, lines 61-63.
AnthropicChunkText(chunk) ==
    IF chunk.delta.present /\ chunk.delta.hasText /\ chunk.delta.text # <<>>
    THEN Text(chunk.delta.text)
    ELSE Text(<<>>)

\* fullContent after a loop over per-chunk outcomes: the first throw leaves
\* the loop.
RECURSIVE Accumulate(_, _)
Accumulate(outcomes, fullContent) ==
    IF outcomes = <<>>
    THEN Text(fullContent)
    ELSE IF Head(outcomes).threw
    THEN Head(outcomes)
    ELSE Accumulate(Tail(outcomes), fullContent \o Head(outcomes).text)

\* getFullCompletionFromStream of either adapter on a vendor stream: the
\* loop of lines 63-69 (openai.ts) or 60-64 (anthropic.ts), then the return,
\* or the rethrow of the stream's fault.
getFullCompletionFromStream(provider, s) ==
    LET outcomes == [i \in 1..Len(s.chunks) |->
                        IF provider = OPENAI
                        THEN OpenAIChunkText(s.chunks[i])
                        ELSE AnthropicChunkText(s.chunks[i])]
        r == Accumulate(outcomes, <<>>)
    IN  IF r.threw THEN r
        ELSE IF s.fault THEN Thrown(VendorFault)
        ELSE r

----------------------------------------------------------------------------
(* routes/chat.ts: POST /api/chat *)

\* The text of a character tuple, as the store's rows hold it.
RECURSIVE Str(_)
Str(t) == IF t = <<>> THEN "" ELSE Head(t) \o Str(Tail(t))

\* `Model '${model}' is not available`
ModelNotAvailableError(model) ==
    [name |-> "Model is not available", subject |-> model, list |-> <<>>]

\* Lines 90-98 looking the model up in the table of all models.
modelFound_AnyTableModel(provs, model) == model \in TableKeySet

modelFound_ByInference(provs, model) == ~getProviderForModel(model).threw

\* Lines 90-98: the model is in one of the lists of getAvailableModels().
modelFound(provs, model) ==
    LET availableModels == getAvailableModels(provs) IN
    \E provider \in DOMAIN availableModels :
        \E i \in 1..Len(availableModels[provider]) :
            availableModels[provider][i] = model

\* Lines 77-85: the file's prompt, then the request's after a separator.
ResolvePrompt(fileSystemPrompt, requestSystemPrompt) ==
    IF requestSystemPrompt # <<>> /\ requestSystemPrompt[1] # ""
    THEN IF fileSystemPrompt # ""
         THEN fileSystemPrompt \o "\n-----\n" \o requestSystemPrompt[1]
         ELSE requestSystemPrompt[1]
    ELSE fileSystemPrompt

\* Lines 114-116 and 198-200: the first 50 characters, then an ellipsis.
FirstFifty(text) ==
    IF Len(text) > 50
    THEN SubSeq(text, 1, 50) \o <<".", ".", ".">>
    ELSE text

\* The SSE events of lines 154-157 and 171-175.
ContentEvent(content) ==
    [content |-> content, done |-> FALSE, conversation_id |-> "",
     error |-> NoError]

FinalEvent(conversationId) ==
    [content |-> <<>>, done |-> TRUE, conversation_id |-> conversationId,
     error |-> NoError]

\* What a vendor stream does on a pull.
VendorEvents(universe) ==
    { [kind |-> "chunk", chunk |-> c] : c \in universe } \cup
    { [kind |-> k, chunk |-> Chunk(FALSE, <<>>, AbsentDelta)] :
        k \in {"fault", "end"} }

\* What a generator hands its consumer on a pull.
Yield(chunk) ==
    [kind |-> "yield", chunk |-> chunk, isText |-> FALSE, text |-> <<>>,
     error |-> NoError]

YieldText(text) ==
    [kind |-> "yield", chunk |-> Chunk(FALSE, <<>>, AbsentDelta),
     isText |-> TRUE, text |-> text, error |-> NoError]

Throw(error) ==
    [kind |-> "throw", chunk |-> Chunk(FALSE, <<>>, AbsentDelta),
     isText |-> FALSE, text |-> <<>>, error |-> error]

Return ==
    [kind |-> "return", chunk |-> Chunk(FALSE, <<>>, AbsentDelta),
     isText |-> FALSE, text |-> <<>>, error |-> NoError]

\* streamChatCompletion with a catch that does not rethrow.
streamChatCompletion_SwallowFault(event) ==
    IF event.kind = "chunk" THEN Yield(event.chunk) ELSE Return

\* streamChatCompletion of either adapter, on one pull (openai.ts, lines
\* 42-48; anthropic.ts, lines 39-45): a chunk is yielded as it came, a fault
\* is logged and rethrown, the end of the vendor stream ends the generator.
streamChatCompletion(event) ==
    IF event.kind = "chunk" THEN Yield(event.chunk)
    ELSE IF event.kind = "fault" THEN Throw(VendorFault)
    ELSE Return

\* streamChat yielding the text of each chunk.
streamChatYield_Normalized(pulled) ==
    IF pulled.kind # "yield" THEN pulled
    ELSE LET r == ExtractContent(pulled.chunk) IN
         IF r.threw THEN Throw(r.error) ELSE YieldText(r.text)

\* streamChat, line 71: yield* hands on what the adapter's generator gives.
streamChatYield(pulled) == pulled

\* Lines 138-148 on an element streamChat yielded; a string has neither
\* choices nor delta.
ExtractYielded(element) ==
    IF element.isText THEN Text(<<>>) ELSE ExtractContent(element.chunk)

\* Line 151 with the operands exchanged.
AppendContent_Prepend(fullContent, content) == content \o fullContent

\* Line 151: fullContent += content || ''
AppendContent(fullContent, content) == fullContent \o content

\* The inner catch writing an event that is not final.
ErrorEvent_NotDone(error, conversationId) ==
    [content |-> <<>>, done |-> FALSE, conversation_id |-> conversationId,
     error |-> error]

\* Lines 214-219.
ErrorEvent(error, conversationId) ==
    [content |-> <<>>, done |-> TRUE, conversation_id |-> conversationId,
     error |-> error]

\* Leaving a for await loop early without closing the iterator.
IteratorReturn_Leak(state) == state

\* Leaving the for await loop of line 137 before the generator is done calls
\* its return(), which yield* (index.ts:71) and the adapter's for await
\* (openai.ts:42, anthropic.ts:39) pass down to the vendor stream.
IteratorReturn(state) == IF state = "open" THEN "released" ELSE state

----------------------------------------------------------------------------
(* briefSummaryOfConversationHistory, lines 201-237: the transcript sent to  *)
(* the summarization model.  Text is a tuple of characters and the regular   *)
(* expressions are computed as the engine matches them.                      *)

\* '<resource />'
Resource ==
    <<"<", "r", "e", "s", "o", "u", "r", "c", "e", " ", "/", ">">>

\* 'Please summarize the following conversation in bullet points:\n\n'
TranscriptHeader ==
    <<"P", "l", "e", "a", "s", "e", " ", "s", "u", "m", "m", "a", "r", "i",
       "z", "e", " ", "t", "h", "e", " ", "f", "o", "l", "l", "o", "w",
       "i", "n", "g", " ", "c", "o", "n", "v", "e", "r", "s", "a", "t",
       "i", "o", "n", " ", "i", "n", " ", "b", "u", "l", "l", "e", "t",
       " ", "p", "o", "i", "n", "t", "s", ":", "\n", "\n">>

\* Message contents.
MarkdownImage ==
    <<"s", "e", "e", " ", "!", "[", "a", "l", "t", "]", "(", "h", "t", "t",
       "p", ":", "/", "/", "x", "/", "y", ".", "p", "n", "g", ")", " ",
       "o", "k">>

ImgTag ==
    <<"<", "i", "m", "g", " ", "s", "r", "c", "=", "\"", "a", ".", "p",
       "n", "g", "\"", ">", " ", "h", "i">>

DataUri ==
    <<"d", "a", "t", "a", ":", "i", "m", "a", "g", "e", "/", "p", "n", "g",
       ";", "b", "a", "s", "e", "6", "4", ",", "i", "V", "B", "O", "R",
       " ", "w", "0">>

AttachmentMarker ==
    <<"[", "a", "t", "t", "a", "c", "h", "m", "e", "n", "t", ":", " ", "f",
       ".", "p", "d", "f", "]", " ", "d", "o", "n", "e">>

PlainText ==
    <<"p", "l", "a", "i", "n", " ", "t", "e", "x", "t">>

MarkdownDataUri ==
    <<"!", "[", "a", "]", "(", "d", "a", "t", "a", ":", "i", "m", "a", "g",
       "e", "/", "p", "n", "g", ";", "b", "a", "s", "e", "6", "4", ",",
       "A", "A", "A", ")">>

UpperCaseImgTag ==
    <<"<", "I", "M", "G", " ", "S", "R", "C", "=", "\"", "a", ".", "p",
       "n", "g", "\"", ">">>

MarkdownParenUrl ==
    <<"!", "[", "a", "]", "(", "h", "t", "t", "p", ":", "/", "/", "x", "/",
       "y", "_", "(", "1", ")", ".", "p", "n", "g", ")">>

MarkdownBrokenAlt ==
    <<"!", "[", "a", "\n", "b", "]", "(", "u", ".", "p", "n", "g", ")">>

DataUriWithParameter ==
    <<"d", "a", "t", "a", ":", "i", "m", "a", "g", "e", "/", "s", "v", "g",
       "+", "x", "m", "l", ";", "c", "h", "a", "r", "s", "e", "t", "=",
       "u", "t", "f", "-", "8", ";", "b", "a", "s", "e", "6", "4", ",",
       "P", "H", "N", "2">>

ImgTagOverLines ==
    <<"<", "i", "m", "g", "\n", "s", "r", "c", "=", "'", "d", "a", "t",
       "a", ":", "i", "m", "a", "g", "e", "/", "g", "i", "f", ";", "b",
       "a", "s", "e", "6", "4", ",", "R", "0", "l", "'", ">">>

Contents ==
    { MarkdownImage,
      ImgTag,
      DataUri,
      AttachmentMarker,
      PlainText,
      MarkdownDataUri,
      UpperCaseImgTag,
      MarkdownParenUrl,
      MarkdownBrokenAlt,
      DataUriWithParameter,
      ImgTagOverLines }

RoleText(role) ==
    IF role = "user" THEN <<"u", "s", "e", "r">>
    ELSE IF role = "assistant"
    THEN <<"a", "s", "s", "i", "s", "t", "a", "n", "t">>
    ELSE <<"s", "y", "s", "t", "e", "m">>

\* s has p at position i.
At(s, i, p) ==
    /\ i >= 1
    /\ i + Len(p) - 1 <= Len(s)
    /\ SubSeq(s, i, i + Len(p) - 1) = p

\* `.` matches any character but a line terminator.
LineTerminators == {"\n", "\r"}

\* \s
WhiteSpace == {" ", "\n", "\r", "\t"}

NoneIn(s, from, to, chars) == \A x \in from..to : s[x] \notin chars

Min(S) == CHOOSE x \in S : \A y \in S : x <= y

\* The last position of the longest run of characters outside `chars` that
\* starts at `from`; from - 1 when the run is empty.
RunEnd(s, from, chars) ==
    LET stops == {x \in from..Len(s) : s[x] \in chars}
    IN  IF stops = {} THEN Len(s) ELSE Min(stops) - 1

\* The position where the match of a pattern that starts at i ends, 0 when
\* the pattern does not match at i.
\*   1  /!\[.*?\]\(.*?\)/          2  /<img[^>]*>/
\*   3  /data:image\/[^;]+;base64,[^\"\s]+/     4  /\[attachment:.*?\]/
MatchEnd(re, s, i) ==
    IF re = 1
    THEN IF ~At(s, i, <<"!", "[">>) THEN 0
         ELSE LET ends == { k \in (i + 4)..Len(s) :
                              /\ s[k] = ")"
                              /\ \E j \in (i + 2)..(k - 2) :
                                    /\ At(s, j, <<"]", "(">>)
                                    /\ NoneIn(s, i + 2, j - 1, LineTerminators)
                                    /\ NoneIn(s, j + 2, k - 1, LineTerminators) }
              IN  IF ends = {} THEN 0 ELSE Min(ends)
    ELSE IF re = 2
    THEN IF ~At(s, i, <<"<", "i", "m", "g">>) THEN 0
         ELSE LET ends == { k \in (i + 4)..Len(s) : s[k] = ">" }
              IN  IF ends = {} THEN 0 ELSE Min(ends)
    ELSE IF re = 3
    THEN IF ~At(s, i, <<"d", "a", "t", "a", ":", "i", "m", "a", "g", "e", "/">>)
         THEN 0
         ELSE LET e == RunEnd(s, i + 11, {";"})
                  b == e + 9
                  f == RunEnd(s, b, WhiteSpace \cup {"\""})
              IN  IF /\ e >= i + 11
                     /\ At(s, e + 1, <<";", "b", "a", "s", "e", "6", "4", ",">>)
                     /\ f >= b
                  THEN f ELSE 0
    ELSE IF ~At(s, i, <<"[", "a", "t", "t", "a", "c", "h", "m", "e", "n", "t", ":">>)
         THEN 0
         ELSE LET ends == { k \in (i + 12)..Len(s) :
                              /\ s[k] = "]"
                              /\ NoneIn(s, i + 12, k - 1, LineTerminators) }
              IN  IF ends = {} THEN 0 ELSE Min(ends)

\* String.prototype.replace(re, '<resource />') with the g flag, from
\* position i on: leftmost matches, left to right, none overlapping.
RECURSIVE ReplaceAll(_, _, _)
ReplaceAll(re, s, i) ==
    IF i > Len(s) THEN <<>>
    ELSE LET k == MatchEnd(re, s, i) IN
         IF k > 0
         THEN Resource \o ReplaceAll(re, s, k + 1)
         ELSE <<s[i]>> \o ReplaceAll(re, s, i + 1)

\* Lines 205-217: the four replacements, in the order of the code.
ProcessContent(content) ==
    ReplaceAll(4, ReplaceAll(3, ReplaceAll(2, ReplaceAll(1, content, 1), 1), 1), 1)

\* Array.prototype.join('\n\n') of `${msg.role}: ${msg.content}`.
RECURSIVE JoinLines(_)
JoinLines(msgs) ==
    IF msgs = <<>> THEN <<>>
    ELSE RoleText(Head(msgs).role) \o <<":", " ">> \o Head(msgs).content \o
         (IF Len(msgs) > 1 THEN <<"\n", "\n">> ELSE <<>>) \o
         JoinLines(Tail(msgs))

\* Lines 202-237: the content of the user message of the summary request.
Transcript(msgs) ==
    TranscriptHeader \o
    JoinLines([i \in 1..Len(msgs) |->
                 [role |-> msgs[i].role,
                  content |-> ProcessContent(msgs[i].content)]])

----------------------------------------------------------------------------
(* Inputs *)

ModelIds ==
    TableKeySet \cup ObjectPrototypeKeys \cup
    { <<"g", "p", "t", "-", "5">>,
      <<"t", "e", "x", "t", "-", "a", "d", "a">>,
      <<"c", "l", "a", "u", "d", "e", "-", "2">>,
      <<"g", "p", "t">>,
      <<"G", "P", "T", "-", "4">>,
      <<"x", "g", "p", "t", "-", "4">>,
      <<"l", "l", "a", "m", "a", "-", "3">>,
      <<>> }

NoCall ==
    [op |-> "none", model |-> <<>>, threw |-> FALSE, value |-> "",
     error |-> NoError, models |-> <<>>]

ConversationIds == {"c1", "c404"}

\* The conversation the store holds.
StoredConversation == "c1"

NoHistory ==
    [called |-> FALSE, conversationId |-> "", summarize |-> FALSE,
     loaded |-> <<>>, reply |-> [fault |-> FALSE, text |-> ""],
     outcome |-> HistoryOutcome(FALSE, NoError, <<>>, <<>>, <<>>, FALSE, <<>>)]

NoNorm == [called |-> FALSE, chunk |-> Chunk(FALSE, <<>>, AbsentDelta),
           result |-> Text(<<>>)]

NoCompletion ==
    [called |-> FALSE, provider |-> "", stream |-> [chunks |-> <<>>, fault |-> FALSE],
     result |-> Text(<<>>)]

\* The handler before a request: its position, the request's fields, and
\* the locals currentConversationId, systemPrompt (kept until line 122, its
\* last use), fullContent; what the loop of line 137 was handed, how many
\* times it pulled, how it ended, the error caught and the store call that
\* failed.
NoChat ==
    [pc |-> "idle", model |-> <<>>, message |-> <<>>, summarize |-> FALSE,
     conversation_id |-> <<>>, conversationId |-> "", systemPrompt |-> "",
     fullContent |-> <<>>, received |-> <<>>, pulls |-> 0, loop |-> "",
     error |-> NoError, failed |-> ""]

NoResponse ==
    [status |-> 0, contentType |-> "", json |-> NoError, events |-> <<>>,
     ended |-> FALSE, clientGone |-> FALSE]

\* The vendor stream: unopened, open or released; the chunks it emitted and
\* whether it faulted.
NoStream ==
    [state |-> "unopened", provider |-> "", emitted |-> <<>>, fault |-> FALSE]

NoConversation ==
    [exists |-> FALSE, id |-> "", title |-> <<>>, model |-> <<>>,
     systemPrompt |-> <<>>, messages |-> <<>>]

\* The id prisma.conversation.create gives the new conversation.
NewConversation == "c2"

\* A write the handler asks of services/database.
DbCall(op, conversationId, role, content, model) ==
    [op |-> op, conversationId |-> conversationId, role |-> role,
     content |-> content, model |-> model]

\* prisma.message.create in addMessage: the n-th row of a conversation.
Row(n, role, content) == [id |-> n, role |-> role, content |-> Str(content)]

\* The stored conversation after n messages of the chat route.
StoredLog(n) == [i \in 1..n |-> NewRow(i, ExpectedRole(i))]

StoredLogs ==
    { StoredLog(0), StoredLog(2), StoredLog(CONVERSATION_MESSAGES_THRESHOLD) }

\* The chunks a vendor sends in a chat: text, short and long, a delta
\* without text, and from an OpenAI-compatible endpoint a choices entry
\* without delta.
ChatChunks(provider) ==
    IF provider = OPENAI
    THEN { Chunk(TRUE, <<[delta |-> d]>>, AbsentDelta) :
             d \in {ContentDelta(Hello), ContentDelta(There), EmptyDelta,
                    AbsentDelta, ContentDelta(Long)} }
    ELSE { Chunk(FALSE, <<>>, d) :
             d \in {TextDelta(Hello), TextDelta(There), EmptyDelta} }

\* Bodies that pass chatRequestSchema.
ChatRequests ==
    { r \in [ model : {gpt_4o, claude_3_haiku, <<"g", "p", "t", "-", "5">>},
              message : {Hi, Long},
              conversation_id : {<<>>, <<"">>, <<StoredConversation>>},
              system_prompt : {<<>>, <<"Be brief">>},
              summarize_history : BOOLEAN ] :
        /\ r.system_prompt # <<>> =>
              (r.conversation_id = <<>> /\ ~r.summarize_history)
        /\ r.conversation_id = <<"">> =>
              (r.model = gpt_4o /\ ~r.summarize_history)
        /\ r.message = Long =>
              (r.model = gpt_4o /\ r.conversation_id = <<>>
               /\ r.system_prompt = <<>> /\ ~r.summarize_history) }

\* templates/prompts/system_prompt.txt as read, '' when it cannot be read.
FilePrompts == {"", "You are a helpful assistant"}

NoScrub ==
    [called |-> FALSE, messages |-> <<>>, threw |-> FALSE, model |-> <<>>,
     transcript |-> <<>>]

\* The older messages handed to the Summarizer.
SummaryInputs ==
    UNION { [1..n -> [role : {"user", "assistant"}, content : Contents]] :
              n \in 1..MaxOlder }

----------------------------------------------------------------------------
(* State machine *)

\* ---------------------------------------------------------------------
\* services/llm/index.ts, openai.ts, anthropic.ts: construction

\* What `new OpenAI({apiKey})` / `new Anthropic({apiKey})` does: with a key
\* it returns a client; without one the vendor library either throws or
\* returns a client without key.
ClientOutcomes(hasKey) == IF hasKey THEN {"client"} ELSE {"client", "throws"}

\* The adapter constructors: the vendor client is created, and
\* `if (!this.client) throw` follows; a created client is an object, so the
\* test never throws.
AdapterConstructor(clientOutcome) ==
    IF clientOutcome = "throws"
    THEN [threw |-> TRUE]
    ELSE LET client == TRUE
         IN  IF ~client THEN [threw |-> TRUE] ELSE [threw |-> FALSE]

\* LLMServiceProvider.constructor: each adapter in its own try/catch.
constructProviders(clientOutcome) ==
    [threw |-> FALSE,
     providers |-> [p \in Provider |->
                      ~AdapterConstructor(clientOutcome[p]).threw]]

NoConstruction ==
    [called |-> FALSE, hasKey |-> [p \in Provider |-> FALSE],
     clientOutcome |-> [p \in Provider |-> ""], threw |-> FALSE]

\* ---------------------------------------------------------------------
\* routes/chat.ts: two chat requests in flight

\* What one invocation of the handler owns: its locals, its response, its
\* vendor stream, and the calls it made.
NoContext ==
    [chat |-> NoChat, response |-> NoResponse, stream |-> NoStream,
     history |-> NoHistory, adapterCalls |-> <<>>, dbCalls |-> <<>>]

\* Two requests on different conversations: one continues the stored
\* conversation, one creates its own.
ConcurrentRequests ==
    { [model |-> gpt_4o, message |-> Hi,
       conversation_id |-> <<StoredConversation>>, system_prompt |-> <<>>,
       summarize_history |-> FALSE],
      [model |-> claude_3_haiku, message |-> Yo,
       conversation_id |-> <<>>, system_prompt |-> <<>>,
       summarize_history |-> FALSE] }

\* Each vendor streams a text of its own.
ConcurrentChunks(provider) ==
    IF provider = OPENAI
    THEN { Chunk(TRUE, <<[delta |-> ContentDelta(Hello)]>>, AbsentDelta) }
    ELSE { Chunk(FALSE, <<>>, TextDelta(There)) }

\* ---------------------------------------------------------------------
\* services/database.ts: addMessage and the first-message previews

\* addMessage calls that may be in flight together.
MaxAdds == 2

\* A text of 101 characters.
Long101 == Long \o SubSeq(Long, 1, 50)

PreviewContents == {<<>>, Hi, Yo, Long101}

\* Lines 196 and 202: the preview of a content.
Preview(content) ==
    IF Len(content) > 100
    THEN SubSeq(content, 1, 97) \o <<".", ".", ".">>
    ELSE content

\* A column that is null is <<>>; one that holds the text t is <<t>>.
\* `!conversation.firstUserMessage`: null and the empty string are falsy.
Falsy(column) == column = <<>> \/ column[1] = <<>>

IdleAdd ==
    [pc |-> "idle", role |-> "", content |-> <<>>,
     seen |-> [firstUserMessage |-> <<>>, firstAssistantMessage |-> <<>>]]

NoPreviews ==
    [rows |-> <<>>, firstUserMessage |-> <<>>, firstAssistantMessage |-> <<>>,
     adds |-> [i \in 1..MaxAdds |-> IdleAdd]]

\* ---------------------------------------------------------------------
\* services/llm/anthropic.ts: the request sent to the vendor

\* Longest message list handed to the adapter.
MaxRequestMsgs == 3

\* The messages handed to the adapter.
RequestMessages ==
    { [role |-> "user", content |-> "question"],
      [role |-> "assistant", content |-> "answer"],
      [role |-> "system", content |-> "You are a helpful assistant"],
      [role |-> "system", content |-> "Summary of previous conversation: \nnone"] }

RequestMessageLists ==
    UNION { [1..n -> RequestMessages] : n \in 0..MaxRequestMsgs }

\* Array.prototype.join on the contents of messages.
RECURSIVE JoinContents(_, _)
JoinContents(msgs, separator) ==
    IF msgs = <<>> THEN ""
    ELSE IF Len(msgs) = 1 THEN msgs[1].content
    ELSE msgs[1].content \o separator \o JoinContents(Tail(msgs), separator)

\* Lines 76-100: the system messages are joined into the local systemPrompt,
\* which is neither returned nor stored; the result holds the user and
\* assistant messages.
convertToAnthropicMessages(msgs) ==
    LET systemMessages == SelectSeq(msgs, LAMBDA msg : msg.role = "system")
        nonSystemMessages == SelectSeq(msgs, LAMBDA msg : msg.role # "system")
        systemPrompt_ == IF Len(systemMessages) > 0
                         THEN JoinContents(systemMessages, "\n\n")
                         ELSE ""
        result == SelectSeq(nonSystemMessages,
                            LAMBDA msg : msg.role \in {"user", "assistant"})
    IN  result

\* Lines 27-36: the argument of client.messages.create; it has no system
\* field.
messagesCreateRequest(model, msgs) ==
    [called |-> TRUE, input |-> msgs, model |-> model,
     messages |-> convertToAnthropicMessages(msgs), stream |-> TRUE,
     max_tokens |-> 4096, hasSystem |-> FALSE, system |-> ""]

NoVendorRequest ==
    [called |-> FALSE, input |-> <<>>, model |-> <<>>, messages |-> <<>>,
     stream |-> FALSE, max_tokens |-> 0, hasSystem |-> FALSE, system |-> ""]

\* ---------------------------------------------------------------------
\* routes/conversations.ts and services/database.ts: reading a conversation

\* What prisma.conversation.findUnique does: it resolves with the row, with
\* null, or rejects.
StoreOutcomes == {"row", "none", "fault"}

Null == [isNull |-> TRUE, id |-> "", messages |-> <<>>, message_count |-> 0]

\* database.ts getConversation: null when there is no row, and null as well
\* when the query rejects (the catch returns null); it never throws.
getConversation(conversationId, includeMessages, outcome, rows) ==
    IF outcome = "fault"
    THEN [threw |-> FALSE, value |-> Null]
    ELSE IF outcome = "none"
    THEN [threw |-> FALSE, value |-> Null]
    ELSE [threw |-> FALSE,
          value |-> [isNull |-> FALSE, id |-> conversationId,
                     messages |-> IF includeMessages THEN rows ELSE <<>>,
                     message_count |-> IF includeMessages THEN Len(rows) ELSE 0]]

NotFoundError ==
    [name |-> "Conversation not found", subject |-> <<>>, list |-> <<>>]

InternalServerError ==
    [name |-> "Internal server error", subject |-> <<>>, list |-> <<>>]

NoLookup ==
    [called |-> FALSE, conversationId |-> "", outcome |-> "", status |-> 0,
     error |-> NoError, body |-> Null]

\* The route GET /:conversationId.
conversationRoute(conversationId, outcome, rows) ==
    LET conversation == getConversation(conversationId, TRUE, outcome, rows) IN
    IF conversation.threw
    THEN [called |-> TRUE, conversationId |-> conversationId,
          outcome |-> outcome, status |-> 500, error |-> InternalServerError,
          body |-> Null]
    ELSE IF conversation.value.isNull
    THEN [called |-> TRUE, conversationId |-> conversationId,
          outcome |-> outcome, status |-> 404, error |-> NotFoundError,
          body |-> Null]
    ELSE [called |-> TRUE, conversationId |-> conversationId,
          outcome |-> outcome, status |-> 200, error |-> NoError,
          body |-> conversation.value]

Init ==
    /\ providers \in [Provider -> BOOLEAN]
    /\ call = NoCall
    /\ adapterCalls = <<>>
    /\ messages = <<>>
    /\ systemPrompt \in {<<>>, <<"">>, <<"You are a helpful assistant">>}
    /\ history = NoHistory
    /\ norm = NoNorm
    /\ completion = NoCompletion
    /\ scrub = NoScrub
    /\ lookup = NoLookup
    /\ other = NoContext
    /\ previews = NoPreviews
    /\ construction = NoConstruction
    /\ vendorRequest = NoVendorRequest
    /\ chat = NoChat
    /\ response = NoResponse
    /\ stream = NoStream
    /\ created = NoConversation
    /\ dbCalls = <<>>

GetProviderForModel(model) ==
    LET r == getProviderForModel(model) IN
    /\ call' = [NoCall EXCEPT !.op = "getProviderForModel", !.model = model,
                              !.threw = r.threw, !.value = r.value,
                              !.error = r.error]
    /\ adapterCalls' = <<>>
    /\ history' = NoHistory
    /\ UNCHANGED <<providers, messages, systemPrompt, pureVars, chatVars>>

\* streamChat drained by its consumer: dispatch, then the adapter's stream.
StreamChat(model, reply) ==
    LET d == streamChat(providers, model) IN
    /\ IF d.threw
       THEN /\ call' = [NoCall EXCEPT !.op = "streamChat", !.model = model,
                                      !.threw = TRUE, !.error = d.error]
            /\ adapterCalls' = <<>>
       ELSE /\ call' = [NoCall EXCEPT !.op = "streamChat", !.model = model,
                                      !.threw = reply.fault,
                                      !.value = reply.text,
                                      !.error = IF reply.fault THEN VendorFault
                                                ELSE NoError]
            /\ adapterCalls' = << [provider |-> d.provider,
                                   method |-> "streamChatCompletion",
                                   model |-> model] >>
    /\ history' = NoHistory
    /\ UNCHANGED <<providers, messages, systemPrompt, pureVars, chatVars>>

GetChatCompletion(model, reply) ==
    LET d == getChatCompletion(providers, model) IN
    /\ IF d.threw
       THEN /\ call' = [NoCall EXCEPT !.op = "getChatCompletion", !.model = model,
                                      !.threw = TRUE, !.error = d.error]
            /\ adapterCalls' = <<>>
       ELSE /\ call' = [NoCall EXCEPT !.op = "getChatCompletion", !.model = model,
                                      !.threw = reply.fault,
                                      !.value = reply.text,
                                      !.error = IF reply.fault THEN VendorFault
                                                ELSE NoError]
            /\ adapterCalls' = << [provider |-> d.provider,
                                   method |-> "getFullCompletionFromStream",
                                   model |-> model] >>
    /\ history' = NoHistory
    /\ UNCHANGED <<providers, messages, systemPrompt, pureVars, chatVars>>

GetAvailableModels ==
    /\ call' = [NoCall EXCEPT !.op = "getAvailableModels",
                              !.models = getAvailableModels(providers)]
    /\ adapterCalls' = <<>>
    /\ history' = NoHistory
    /\ UNCHANGED <<providers, messages, systemPrompt, pureVars, chatVars>>

\* addMessage: one more row in the conversation.
AddMessage(role) ==
    /\ Len(messages) < MaxMsgs
    /\ \/ role = ExpectedRole(Len(messages) + 1)
       \/ Len(messages) < MaxFreeRows
    /\ messages' = Append(messages, NewRow(Len(messages) + 1, role))
    /\ call' = NoCall
    /\ adapterCalls' = <<>>
    /\ history' = NoHistory
    /\ UNCHANGED <<providers, systemPrompt, pureVars, chatVars>>

GetMessageHistory(conversationId, summarize, loaded, reply) ==
    LET found == conversationId = StoredConversation
        out == getMessageHistory(providers, conversationId, found, loaded,
                                 systemPrompt, summarize, reply)
    IN  /\ history' = [called |-> TRUE, conversationId |-> conversationId,
                       summarize |-> summarize,
                       loaded |-> IF found THEN loaded ELSE <<>>,
                       reply |-> IF Len(out.calls) > 0 THEN reply
                                 ELSE NoHistory.reply,
                       outcome |-> out]
        /\ adapterCalls' = out.calls
        /\ call' = NoCall
        /\ UNCHANGED <<providers, messages, systemPrompt, pureVars, chatVars>>

Next ==
    \/ \E model \in ModelIds : GetProviderForModel(model)
    \/ \E model \in ModelIds, reply \in VendorReplies : StreamChat(model, reply)
    \/ \E model \in ModelIds, reply \in VendorReplies : GetChatCompletion(model, reply)
    \/ GetAvailableModels

Spec == Init /\ [][Next]_vars

NextHistory ==
    \/ \E role \in Roles : AddMessage(role)
    \/ \E summarize \in BOOLEAN, loaded \in LoadOrders(messages),
          reply \in VendorReplies :
            GetMessageHistory(StoredConversation, summarize, loaded, reply)
    \/ \E conversationId \in ConversationIds \ {StoredConversation},
          summarize \in BOOLEAN :
            GetMessageHistory(conversationId, summarize, <<>>, NoHistory.reply)

SpecHistory == Init /\ [][NextHistory]_vars

\* GET /conversations/:conversationId: the store holds StoredConversation and
\* no other conversation; any query may reject.
GetConversation(conversationId, outcome) ==
    /\ outcome = "row" => conversationId = StoredConversation
    /\ outcome = "none" => conversationId # StoredConversation
    /\ lookup' = conversationRoute(conversationId, outcome, messages)
    /\ call' = NoCall
    /\ adapterCalls' = <<>>
    /\ history' = NoHistory
    /\ UNCHANGED <<providers, messages, systemPrompt, norm, completion, scrub,
                   vendorRequest, construction, previews, other, chatVars>>

\* The process starts: the environment holds a credential per provider or
\* not, and the orchestrator is constructed.
InitConstructed ==
    /\ \E hasKey \in [Provider -> BOOLEAN] :
         \E clientOutcome \in [Provider -> {"client", "throws"}] :
            /\ \A p \in Provider : clientOutcome[p] \in ClientOutcomes(hasKey[p])
            /\ construction = [called |-> TRUE, hasKey |-> hasKey,
                               clientOutcome |-> clientOutcome,
                               threw |-> constructProviders(clientOutcome).threw]
            /\ providers = constructProviders(clientOutcome).providers
    /\ call = NoCall
    /\ adapterCalls = <<>>
    /\ messages = <<>>
    /\ systemPrompt \in {<<>>, <<"">>, <<"You are a helpful assistant">>}
    /\ history = NoHistory
    /\ norm = NoNorm
    /\ completion = NoCompletion
    /\ scrub = NoScrub
    /\ lookup = NoLookup
    /\ other = NoContext
    /\ previews = NoPreviews
    /\ vendorRequest = NoVendorRequest
    /\ chat = NoChat
    /\ response = NoResponse
    /\ stream = NoStream
    /\ created = NoConversation
    /\ dbCalls = <<>>

SpecConstructed == InitConstructed /\ [][Next]_vars

\* addMessage(conversationId, role, content) is called.
AddMessageCalled(i, role, content) ==
    /\ previews.adds[i].pc = "idle"
    /\ previews' = [previews EXCEPT
                      !.adds[i] = [IdleAdd EXCEPT !.pc = "create",
                                                  !.role = role,
                                                  !.content = content]]
    /\ UNCHANGED <<providers, call, adapterCalls, messages, systemPrompt,
                   history, norm, completion, scrub, lookup, vendorRequest,
                   construction, other, chatVars>>

\* Lines 173-182: prisma.message.create.
MessageCreate(i) ==
    /\ previews.adds[i].pc = "create"
    /\ previews' = [previews EXCEPT
                      !.rows = Append(@, [role |-> previews.adds[i].role,
                                          content |-> previews.adds[i].content]),
                      !.adds[i].pc = "find"]
    /\ UNCHANGED <<providers, call, adapterCalls, messages, systemPrompt,
                   history, norm, completion, scrub, lookup, vendorRequest,
                   construction, other, chatVars>>

\* Lines 185-187: prisma.conversation.findUnique.
ConversationFindUnique(i) ==
    /\ previews.adds[i].pc = "find"
    /\ previews' = [previews EXCEPT
                      !.adds[i].seen =
                          [firstUserMessage |-> previews.firstUserMessage,
                           firstAssistantMessage |-> previews.firstAssistantMessage],
                      !.adds[i].pc = "update"]
    /\ UNCHANGED <<providers, call, adapterCalls, messages, systemPrompt,
                   history, norm, completion, scrub, lookup, vendorRequest,
                   construction, other, chatVars>>

\* Lines 189-213: the updates are computed from the conversation read before
\* and written with prisma.conversation.update.
ConversationUpdate(i) ==
    /\ previews.adds[i].pc = "update"
    /\ LET add == previews.adds[i]
           setUser == add.role = "user" /\ Falsy(add.seen.firstUserMessage)
           setAssistant == add.role = "assistant"
                              /\ Falsy(add.seen.firstAssistantMessage)
       IN  previews' = [previews EXCEPT
                          !.firstUserMessage =
                              IF setUser THEN <<Preview(add.content)>> ELSE @,
                          !.firstAssistantMessage =
                              IF setAssistant THEN <<Preview(add.content)>> ELSE @,
                          !.adds[i].pc = "done"]
    /\ UNCHANGED <<providers, call, adapterCalls, messages, systemPrompt,
                   history, norm, completion, scrub, lookup, vendorRequest,
                   construction, other, chatVars>>

NextPreviews ==
    \/ \E i \in 1..MaxAdds, role \in {"user", "assistant"},
          content \in PreviewContents : AddMessageCalled(i, role, content)
    \/ \E i \in 1..MaxAdds : MessageCreate(i)
    \/ \E i \in 1..MaxAdds : ConversationFindUnique(i)
    \/ \E i \in 1..MaxAdds : ConversationUpdate(i)

SpecPreviews == Init /\ [][NextPreviews]_vars

\* AnthropicService.streamChatCompletion up to the vendor call.
AnthropicStreamChatCompletion(model, msgs) ==
    /\ vendorRequest' = messagesCreateRequest(model, msgs)
    /\ call' = NoCall
    /\ adapterCalls' = <<>>
    /\ history' = NoHistory
    /\ UNCHANGED <<providers, messages, systemPrompt, norm, completion, scrub,
                   lookup, construction, previews, other, chatVars>>

NextAnthropic ==
    \E msgs \in RequestMessageLists :
        AnthropicStreamChatCompletion(claude_3_haiku, msgs)

SpecAnthropic == Init /\ [][NextAnthropic]_vars

NextConversations ==
    \/ \E role \in Roles : AddMessage(role)
    \/ \E conversationId \in ConversationIds, outcome \in StoreOutcomes :
          GetConversation(conversationId, outcome)

SpecConversations == Init /\ [][NextConversations]_vars

\* The chat route's normalization of one chunk.
Normalize(chunk) ==
    /\ norm' = [called |-> TRUE, chunk |-> chunk, result |-> ExtractContent(chunk)]
    /\ completion' = NoCompletion
    /\ scrub' = NoScrub
    /\ call' = NoCall
    /\ adapterCalls' = <<>>
    /\ history' = NoHistory
    /\ UNCHANGED <<providers, messages, systemPrompt, lookup, vendorRequest,
                   construction, previews, other, chatVars>>

\* An adapter's getFullCompletionFromStream on the stream its vendor sends.
FullCompletion(provider, s) ==
    /\ completion' = [called |-> TRUE, provider |-> provider, stream |-> s,
                      result |-> getFullCompletionFromStream(provider, s)]
    /\ norm' = NoNorm
    /\ scrub' = NoScrub
    /\ call' = NoCall
    /\ adapterCalls' = <<>>
    /\ history' = NoHistory
    /\ UNCHANGED <<providers, messages, systemPrompt, lookup, vendorRequest,
                   construction, previews, other, chatVars>>

NextChunks ==
    \/ \E chunk \in AllChunks : Normalize(chunk)
    \/ \E provider \in Provider :
          \E s \in Streams(VendorChunks(provider)) : FullCompletion(provider, s)

SpecChunks == Init /\ [][NextChunks]_vars

\* briefSummaryOfConversationHistory on the older messages of a conversation,
\* once: the request it hands to getChatCompletion.
Summarize(msgs) ==
    /\ ~scrub.called
    /\ scrub' = IF ~providers[OPENAI]
                THEN [NoScrub EXCEPT !.called = TRUE, !.messages = msgs,
                                     !.threw = TRUE]
                ELSE [called |-> TRUE, messages |-> msgs, threw |-> FALSE,
                      model |-> gpt_4o_mini, transcript |-> Transcript(msgs)]
    /\ norm' = NoNorm
    /\ completion' = NoCompletion
    /\ call' = NoCall
    /\ adapterCalls' = <<>>
    /\ history' = NoHistory
    /\ UNCHANGED <<providers, messages, systemPrompt, lookup, vendorRequest,
                   construction, previews, other, chatVars>>

NextScrub == ~scrub.called /\ \E msgs \in SummaryInputs : Summarize(msgs)

SpecScrub == Init /\ [][NextScrub]_vars

----------------------------------------------------------------------------
(* POST /api/chat, one request *)

InitChat ==
    /\ providers \in [Provider -> BOOLEAN]
    /\ call = NoCall
    /\ adapterCalls = <<>>
    /\ messages \in StoredLogs
    /\ systemPrompt \in {<<>>, <<"You are a helpful assistant">>}
    /\ history = NoHistory
    /\ norm = NoNorm
    /\ completion = NoCompletion
    /\ scrub = NoScrub
    /\ lookup = NoLookup
    /\ other = NoContext
    /\ previews = NoPreviews
    /\ construction = NoConstruction
    /\ vendorRequest = NoVendorRequest
    /\ chat = NoChat
    /\ response = NoResponse
    /\ stream = NoStream
    /\ created = NoConversation
    /\ dbCalls = <<>>

\* A read that returns the rows of every conversation.
RowsOf_AnyConversation(conversationId) == messages \o created.messages

RowsOf(conversationId) ==
    IF conversationId = StoredConversation THEN messages ELSE created.messages

PromptOf(conversationId) ==
    IF conversationId = StoredConversation THEN systemPrompt
    ELSE created.systemPrompt

\* The error a rejected database call raises.
StoreFault == [name |-> "store fault", subject |-> <<>>, list |-> <<>>]

\* Lines 213-222: the inner catch.
WriteError(error) ==
    [response EXCEPT !.status = 200,
                     !.events = Append(@, ErrorEvent(error, chat.conversationId)),
                     !.ended = TRUE]

\* res.status(400).json({error}) of line 101 and of the outer catch (lines
\* 228-232, the headers not yet sent).
RespondBadRequest(error) ==
    [response EXCEPT !.status = 400, !.contentType = "application/json",
                     !.json = error, !.ended = TRUE]

\* Lines 54-109: validation passed; the prompt is resolved, the model looked
\* up in getAvailableModels(), the SSE headers set.
createsConversation_Always(conversation_id) == TRUE

\* Line 109: `if (!currentConversationId)`: true of an absent conversation_id
\* and of the empty string.
createsConversation(conversation_id) ==
    conversation_id = <<>> \/ conversation_id[1] = ""

ChatRequest(req, fileSystemPrompt) ==
    /\ chat.pc = "idle"
    /\ LET create == createsConversation(req.conversation_id)
           found == modelFound(providers, req.model)
           local == [NoChat EXCEPT !.model = req.model,
                                   !.message = req.message,
                                   !.summarize = req.summarize_history,
                                   !.conversation_id = req.conversation_id]
       IN  IF ~found
           THEN /\ chat' = [local EXCEPT !.pc = "done"]
                /\ response' = RespondBadRequest(ModelNotAvailableError(req.model))
           ELSE /\ chat' = [local EXCEPT
                              !.pc = IF create THEN "create" ELSE "addUser",
                              !.conversationId =
                                  IF create THEN "" ELSE req.conversation_id[1],
                              !.systemPrompt =
                                  IF create
                                  THEN ResolvePrompt(fileSystemPrompt,
                                                     req.system_prompt)
                                  ELSE ""]
                /\ response' = [response EXCEPT
                                  !.contentType = "text/event-stream"]
    /\ UNCHANGED <<providers, call, adapterCalls, messages, systemPrompt,
                   history, pureVars, stream, created, dbCalls>>

\* Lines 112-124 and createConversation: the title is the message's first 50
\* characters; createConversation has no fifth parameter, the subtitle of
\* line 119 is dropped.
CreateConversation(ok) ==
    /\ chat.pc = "create"
    /\ dbCalls' = Append(dbCalls,
                         DbCall("createConversation",
                                IF ok THEN NewConversation ELSE "", "",
                                FirstFifty(chat.message), chat.model))
    /\ IF ok
       THEN /\ created' = [exists |-> TRUE, id |-> NewConversation,
                           title |-> FirstFifty(chat.message),
                           model |-> chat.model,
                           systemPrompt |-> <<chat.systemPrompt>>,
                           messages |-> <<>>]
            /\ chat' = [chat EXCEPT !.pc = "addUser",
                                    !.conversationId = NewConversation,
                                    !.systemPrompt = ""]
            /\ UNCHANGED response
       ELSE /\ chat' = [chat EXCEPT !.pc = "done", !.systemPrompt = "",
                                    !.error = StoreFault,
                                    !.failed = "createConversation"]
            /\ response' = RespondBadRequest(StoreFault)
            /\ UNCHANGED created
    /\ UNCHANGED <<providers, call, adapterCalls, messages, systemPrompt,
                   history, pureVars, stream>>

\* addMessage(conversationId, role, content, model) on the store; a call the
\* store rejects leaves no row.
Persist(conversationId, role, content, model, ok) ==
    /\ IF ~ok
       THEN UNCHANGED <<messages, created>>
       ELSE IF conversationId = StoredConversation
       THEN /\ messages' = Append(messages, Row(Len(messages) + 1, role, content))
            /\ UNCHANGED created
       ELSE /\ created' = [created EXCEPT !.messages =
                             Append(@, Row(Len(@) + 1, role, content))]
            /\ UNCHANGED messages
    /\ dbCalls' = Append(dbCalls,
                         DbCall("addMessage", conversationId, role, content, model))

\* Line 127.
AddUserMessage(ok) ==
    /\ chat.pc = "addUser"
    /\ Persist(chat.conversationId, "user", chat.message, <<>>, ok)
    /\ IF ok
       THEN /\ chat' = [chat EXCEPT !.pc = "history"]
            /\ UNCHANGED response
       ELSE /\ chat' = [chat EXCEPT !.pc = "done", !.error = StoreFault,
                                    !.failed = "addUserMessage"]
            /\ response' = RespondBadRequest(StoreFault)
    /\ UNCHANGED <<providers, call, adapterCalls, systemPrompt, history,
                   pureVars, stream>>

\* Line 130: getMessageHistory on the request's conversation; a throw lands
\* in the outer catch.  The vendor replies only when it is asked.
BuildHistory(loaded, reply) ==
    /\ chat.pc = "history"
    /\ LET out == getMessageHistory(providers, chat.conversationId, TRUE, loaded,
                                    PromptOf(chat.conversationId),
                                    chat.summarize, reply)
       IN  /\ out.calls = <<>> => reply = [fault |-> FALSE, text |-> ""]
           /\ history' = [called |-> TRUE,
                          conversationId |-> chat.conversationId,
                          summarize |-> chat.summarize, loaded |-> loaded,
                          reply |-> reply, outcome |-> out]
           /\ adapterCalls' = adapterCalls \o out.calls
           /\ IF out.threw
              THEN /\ chat' = [chat EXCEPT !.pc = "done", !.error = out.error]
                   /\ response' = RespondBadRequest(out.error)
              ELSE /\ chat' = [chat EXCEPT !.pc = "open"]
                   /\ UNCHANGED response
    /\ UNCHANGED <<providers, call, messages, systemPrompt, pureVars, stream,
                   created, dbCalls>>

\* Line 137, the first pull, up to the vendor call: streamChat resolves the
\* provider and hands over to its adapter, whose create() opens the stream.
\* A create() that fails is the stream that faults before its first chunk.
OpenStream ==
    /\ chat.pc = "open"
    /\ LET d == streamChat(providers, chat.model) IN
       IF d.threw
       THEN /\ chat' = [chat EXCEPT !.pc = "done", !.pulls = 1,
                                    !.loop = "threw", !.error = d.error]
            /\ response' = WriteError(d.error)
            /\ UNCHANGED <<adapterCalls, stream>>
       ELSE /\ adapterCalls' = Append(adapterCalls,
                                      [provider |-> d.provider,
                                       method |-> "streamChatCompletion",
                                       model |-> chat.model])
            /\ stream' = [NoStream EXCEPT !.state = "open",
                                          !.provider = d.provider]
            /\ chat' = [chat EXCEPT !.pc = "pull", !.pulls = 1]
            /\ UNCHANGED response
    /\ UNCHANGED <<providers, call, messages, systemPrompt, history, pureVars,
                   created, dbCalls>>

\* Lines 137-177, one pull of the loop: the vendor sends a chunk, faults or
\* ends; the adapter and streamChat hand it on; the loop body extracts the
\* text, appends it and writes the event, or the loop ends.
Pull(event) ==
    /\ chat.pc = "pull"
    /\ stream.state = "open"
    /\ event.kind = "chunk" => Len(stream.emitted) < MaxChunks
    /\ LET pulled == streamChatYield(streamChatCompletion(event))
           r == IF pulled.kind = "yield" THEN ExtractYielded(pulled)
                ELSE Text(<<>>)
           goesOn == pulled.kind = "yield" /\ ~r.threw
       IN  /\ stream' =
                 IF event.kind = "chunk"
                 THEN [stream EXCEPT
                         !.emitted = Append(@, event.chunk),
                         !.state = IF goesOn THEN @ ELSE IteratorReturn(@)]
                 ELSE [stream EXCEPT !.state = "released",
                                     !.fault = (event.kind = "fault")]
           /\ IF goesOn
              THEN /\ chat' = [chat EXCEPT
                                 !.received = Append(@, pulled),
                                 !.fullContent = AppendContent(@, r.text),
                                 !.pulls = @ + 1]
                   /\ response' = [response EXCEPT
                                     !.status = 200,
                                     !.events = Append(@, ContentEvent(r.text))]
              ELSE IF pulled.kind = "yield"
              THEN /\ chat' = [chat EXCEPT !.pc = "done",
                                           !.received = Append(@, pulled),
                                           !.loop = "body",
                                           !.error = r.error]
                   /\ response' = WriteError(r.error)
              ELSE IF pulled.kind = "throw"
              THEN /\ chat' = [chat EXCEPT !.pc = "done", !.loop = "threw",
                                           !.error = pulled.error]
                   /\ response' = WriteError(pulled.error)
              ELSE /\ chat' = [chat EXCEPT !.pc = "persist",
                                           !.loop = "exhausted"]
                   /\ response' = [response EXCEPT
                                     !.status = 200,
                                     !.events = Append(@,
                                         FinalEvent(chat.conversationId))]
    /\ UNCHANGED <<providers, call, adapterCalls, messages, systemPrompt,
                   history, pureVars, created, dbCalls>>

\* Line 180; a rejection lands in the inner catch.
PersistAssistant(ok) ==
    /\ chat.pc = "persist"
    /\ Persist(chat.conversationId, "assistant", chat.fullContent, chat.model, ok)
    /\ IF ok
       THEN /\ chat' = [chat EXCEPT !.pc = "subtitle"]
            /\ UNCHANGED response
       ELSE /\ chat' = [chat EXCEPT !.pc = "done", !.error = StoreFault,
                                    !.failed = "addAssistantMessage"]
            /\ response' = WriteError(StoreFault)
    /\ UNCHANGED <<providers, call, adapterCalls, systemPrompt, history,
                   pureVars, stream>>

\* Lines 183-209: the conversation is read back; after its first assistant
\* message the subtitle is set; the response ends.  A rejected subtitle
\* update lands in the inner catch.
Finish(ok) ==
    /\ chat.pc = "subtitle"
    /\ LET rows == RowsOf(chat.conversationId)
           assistantMessages == SelectSeq(rows, LAMBDA msg : msg.role = "assistant")
           isFirstAssistantResponse == Len(assistantMessages) = 1
       IN  /\ ~isFirstAssistantResponse => ok
           /\ dbCalls' =
                 IF isFirstAssistantResponse
                 THEN Append(dbCalls,
                             DbCall("updateConversationSubtitle",
                                    chat.conversationId, "",
                                    FirstFifty(chat.fullContent), <<>>))
                 ELSE dbCalls
    /\ IF ok
       THEN /\ response' = [response EXCEPT !.ended = TRUE]
            /\ chat' = [chat EXCEPT !.pc = "done"]
       ELSE /\ response' = WriteError(StoreFault)
            /\ chat' = [chat EXCEPT !.pc = "done", !.error = StoreFault,
                                    !.failed = "updateConversationSubtitle"]
    /\ UNCHANGED <<providers, call, adapterCalls, messages, systemPrompt,
                   history, pureVars, stream, created>>

\* The HTTP client goes away mid-stream; the handler registers no listener
\* for it and res.write does not throw.
ClientGoesAway ==
    /\ chat.pc = "pull"
    /\ ~response.clientGone
    /\ response' = [response EXCEPT !.clientGone = TRUE]
    /\ UNCHANGED <<providers, call, adapterCalls, messages, systemPrompt,
                   history, pureVars, chat, stream, created, dbCalls>>

NextChat ==
    \/ \E req \in ChatRequests, fileSystemPrompt \in FilePrompts :
          ChatRequest(req, fileSystemPrompt)
    \/ \E ok \in BOOLEAN : CreateConversation(ok)
    \/ \E ok \in BOOLEAN : AddUserMessage(ok)
    \/ \E loaded \in LoadOrders(RowsOf(chat.conversationId)),
          reply \in VendorReplies : BuildHistory(loaded, reply)
    \/ OpenStream
    \/ \E event \in VendorEvents(ChatChunks(stream.provider)) : Pull(event)
    \/ \E ok \in BOOLEAN : PersistAssistant(ok)
    \/ \E ok \in BOOLEAN : Finish(ok)
    \/ ClientGoesAway

SpecChat == InitChat /\ [][NextChat]_vars

\* Both adapters constructed, the stored conversation holds two messages.
InitConcurrent ==
    /\ providers = [p \in Provider |-> TRUE]
    /\ call = NoCall
    /\ adapterCalls = <<>>
    /\ messages = StoredLog(2)
    /\ systemPrompt = <<>>
    /\ history = NoHistory
    /\ norm = NoNorm
    /\ completion = NoCompletion
    /\ scrub = NoScrub
    /\ lookup = NoLookup
    /\ other = NoContext
    /\ previews = NoPreviews
    /\ construction = NoConstruction
    /\ vendorRequest = NoVendorRequest
    /\ chat = NoChat
    /\ response = NoResponse
    /\ stream = NoStream
    /\ created = NoConversation
    /\ dbCalls = <<>>

\* The running handler reaches an await and the other one resumes: the
\* event loop runs one handler at a time, each on its own locals; the
\* orchestrator and the store are shared.
Switch ==
    /\ chat.pc # "idle" \/ other.chat.pc # "idle"
    /\ other' = [chat |-> chat, response |-> response, stream |-> stream,
                 history |-> history, adapterCalls |-> adapterCalls,
                 dbCalls |-> dbCalls]
    /\ chat' = other.chat
    /\ response' = other.response
    /\ stream' = other.stream
    /\ history' = other.history
    /\ adapterCalls' = other.adapterCalls
    /\ dbCalls' = other.dbCalls
    /\ UNCHANGED <<providers, call, messages, systemPrompt, norm, completion,
                   scrub, lookup, vendorRequest, construction, previews,
                   created>>

NextConcurrent ==
    \/ \E req \in ConcurrentRequests, fileSystemPrompt \in {""} :
          /\ req.model # other.chat.model
          /\ ChatRequest(req, fileSystemPrompt)
    \/ CreateConversation(TRUE)
    \/ AddUserMessage(TRUE)
    \/ \E loaded \in LoadOrders(RowsOf(chat.conversationId)),
          reply \in VendorReplies : BuildHistory(loaded, reply)
    \/ OpenStream
    \/ \E event \in VendorEvents(ConcurrentChunks(stream.provider)) : Pull(event)
    \/ PersistAssistant(TRUE)
    \/ Finish(TRUE)
    \/ ClientGoesAway
    \/ Switch

SpecConcurrent == InitConcurrent /\ [][NextConcurrent]_vars

----------------------------------------------------------------------------
(* Claims about the registry and the dispatch, checked under Spec *)

\* C1: getProviderForModel is a total case analysis: a key of
\* MODEL_PROVIDER_MAP yields its mapped provider; a model absent from the
\* table yields OPENAI when it starts with 'gpt-' or 'text-', otherwise
\* ANTHROPIC when it starts with 'claude-'; every other model fails with the
\* unsupported-model error.
C1_ResolveIsTotalCaseAnalysis ==
    call.op = "getProviderForModel" =>
        LET m == call.model IN
        IF m \in TableKeySet
        THEN /\ ~call.threw
             /\ \E i \in 1..Len(MODEL_PROVIDER_MAP) :
                    MODEL_PROVIDER_MAP[i] = [model |-> m, provider |-> call.value]
        ELSE IF StartsWith(m, <<"g", "p", "t", "-">>)
                \/ StartsWith(m, <<"t", "e", "x", "t", "-">>)
        THEN ~call.threw /\ call.value = OPENAI
        ELSE IF StartsWith(m, <<"c", "l", "a", "u", "d", "e", "-">>)
        THEN ~call.threw /\ call.value = ANTHROPIC
        ELSE call.threw /\ call.error.name = "Unsupported model"

\* C2: for every model identifier, getProviderForModel either returns a
\* member of the Provider enum or raises the unsupported-model error, whose
\* message names the model and lists every key of MODEL_PROVIDER_MAP; it
\* never returns a value outside the enum.
C2_ResolveReturnsProviderOrRaises ==
    call.op = "getProviderForModel" =>
        \/ ~call.threw /\ call.value \in Provider
        \/ /\ call.threw
           /\ call.error.name = "Unsupported model"
           /\ call.error.subject = call.model
           /\ \A k \in TableKeySet :
                  \E i \in 1..Len(call.error.list) : call.error.list[i] = k

\* C3: in streamChat and getChatCompletion, a call whose model is unsupported
\* or whose resolved provider has no adapter fails with that error and
\* invokes no adapter method; an adapter is invoked only when resolution
\* returned a provider whose adapter is constructed, and it is that adapter.
C3_NoAdapterCallBeforeChecksPass ==
    /\ call.op \in {"streamChat", "getChatCompletion"} =>
           LET r == getProviderForModel(call.model) IN
           /\ r.threw =>
                  call.threw /\ call.error = r.error /\ adapterCalls = <<>>
           /\ (~r.threw /\ ~(r.value \in Provider /\ providers[r.value])) =>
                  /\ call.threw
                  /\ call.error.name = "Provider is not initialized"
                  /\ adapterCalls = <<>>
    /\ \A i \in 1..Len(adapterCalls) :
           LET a == adapterCalls[i]
               r == getProviderForModel(a.model)
           IN  /\ ~r.threw
               /\ r.value = a.provider
               /\ a.provider \in Provider
               /\ providers[a.provider]

C3_Witness ==
    /\ call.op = "streamChat"
    /\ call.model = gpt_4o
    /\ ~providers[OPENAI]
    /\ providers[ANTHROPIC]
    /\ call.threw
    /\ adapterCalls = <<>>

\* The position of a model among the keys of the table.
TableIndex(m) == CHOOSE j \in 1..Len(TableKeys) : TableKeys[j] = m

\* C4: getAvailableModels returns a mapping whose keys are exactly the
\* providers with a constructed adapter, and whose value for a provider is
\* exactly the table models mapped to it, in table order; a provider without
\* an adapter has no key.
C4_AvailableModelsOfConstructedProviders ==
    call.op = "getAvailableModels" =>
        /\ DOMAIN call.models = {p \in Provider : providers[p]}
        /\ \A p \in DOMAIN call.models :
               LET v == call.models[p] IN
               /\ \A i \in 1..Len(v) :
                      \E j \in 1..Len(MODEL_PROVIDER_MAP) :
                          MODEL_PROVIDER_MAP[j] = [model |-> v[i], provider |-> p]
               /\ \A j \in 1..Len(MODEL_PROVIDER_MAP) :
                      MODEL_PROVIDER_MAP[j].provider = p =>
                          \E i \in 1..Len(v) : v[i] = MODEL_PROVIDER_MAP[j].model
               /\ \A i1, i2 \in 1..Len(v) :
                      i1 < i2 => TableIndex(v[i1]) < TableIndex(v[i2])

C4_Witness ==
    /\ call.op = "getAvailableModels"
    /\ providers[OPENAI]
    /\ ~providers[ANTHROPIC]
    /\ DOMAIN call.models = {OPENAI}
    /\ Len(call.models[OPENAI]) = 5

----------------------------------------------------------------------------
(* Claims about getMessageHistory, checked under SpecHistory.  The order of  *)
(* the persisted messages is the order of the rows as loaded; C10 relates    *)
(* that order to the creation order.                                         *)

\* getMessageHistory was the last operation and returned.
HistoryReturned == history.called /\ ~history.outcome.threw

\* The conversation has a stored system prompt (a non-empty text).
PromptStored == systemPrompt # <<>> /\ systemPrompt # <<"">>

PromptCount == IF PromptStored THEN 1 ELSE 0

\* The recognized-role rows among the first i rows loaded.
Rank(i) ==
    Cardinality({j \in 1..i : history.loaded[j].role \in RecognizedRoles})

\* The length of the sequence getMessageHistory assembles.
AssembledCount == PromptCount + Rank(Len(history.loaded))

\* seq is the rows loaded, restricted to the recognized roles, in their
\* order, behind the stored system prompt.
IsAssembledSequence(seq) ==
    /\ Len(seq) = AssembledCount
    /\ PromptStored =>
           seq[1] = [role |-> "system", content |-> systemPrompt[1]]
    /\ \A i \in 1..Len(history.loaded) :
           history.loaded[i].role \in RecognizedRoles =>
               seq[PromptCount + Rank(i)] =
                   [role |-> history.loaded[i].role,
                    content |-> history.loaded[i].content]

\* seq is the last CONVERSATION_MESSAGES_THRESHOLD assembled messages.
IsRecentPart(seq) ==
    LET n == Len(history.outcome.assembled) IN
    /\ Len(seq) = CONVERSATION_MESSAGES_THRESHOLD
    /\ \A k \in 1..CONVERSATION_MESSAGES_THRESHOLD :
           seq[k] = history.outcome.assembled[
                        n - CONVERSATION_MESSAGES_THRESHOLD + k]

\* C5 as stated: a conversation with at most threshold (20) persisted
\* messages gets its persisted sequence back, system prompt prepended,
\* whatever the summarize flag, and the Summarizer is not invoked.
C5_PersistedCountBelowThreshold ==
    (HistoryReturned /\ Len(history.loaded) <= CONVERSATION_MESSAGES_THRESHOLD) =>
        /\ IsAssembledSequence(history.outcome.result)
        /\ history.outcome.summarized = <<>>

\* C5 amended: when the assembled count (recognized-role persisted messages
\* plus one for a stored system prompt) is at most the threshold (20),
\* getMessageHistory returns the persisted sequence with the system prompt
\* prepended, whatever the summarize flag; the Summarizer is not invoked.
C5_AssembledCountBelowThreshold ==
    (HistoryReturned /\ AssembledCount <= CONVERSATION_MESSAGES_THRESHOLD) =>
        /\ IsAssembledSequence(history.outcome.result)
        /\ history.outcome.summarized = <<>>
        /\ adapterCalls = <<>>

C5_Witness ==
    /\ HistoryReturned
    /\ history.summarize
    /\ PromptStored
    /\ AssembledCount = CONVERSATION_MESSAGES_THRESHOLD
    /\ Len(history.outcome.result) = CONVERSATION_MESSAGES_THRESHOLD

\* C6: above the threshold with summarize=false, getMessageHistory returns
\* the full assembled sequence, every message in order, without summary
\* message, and the Summarizer is not invoked; the result departs from the
\* assembled sequence only when summarize=true.
C6_NoTruncationWithoutSummarize ==
    /\ (HistoryReturned /\ ~history.summarize
          /\ AssembledCount > CONVERSATION_MESSAGES_THRESHOLD) =>
           /\ history.outcome.result = history.outcome.assembled
           /\ Len(history.outcome.result) = AssembledCount
           /\ history.outcome.summarized = <<>>
           /\ adapterCalls = <<>>
    /\ (HistoryReturned
          /\ history.outcome.result # history.outcome.assembled) =>
           history.summarize

C6_Witness ==
    /\ HistoryReturned
    /\ ~history.summarize
    /\ AssembledCount > CONVERSATION_MESSAGES_THRESHOLD
    /\ Len(history.outcome.result) = AssembledCount

\* C7: with n > threshold assembled messages and summarize=true, the
\* Summarizer receives exactly the first n - threshold messages, and when it
\* succeeds the result is one system message carrying the summary followed by
\* the last threshold messages in order (length threshold + 1).
C7_SummaryThenRecent ==
    (HistoryReturned /\ history.summarize
       /\ AssembledCount > CONVERSATION_MESSAGES_THRESHOLD) =>
        LET n == AssembledCount
            older == n - CONVERSATION_MESSAGES_THRESHOLD
            result == history.outcome.result
        IN  /\ Len(history.outcome.assembled) = n
            /\ Len(history.outcome.summarized) = 1
            /\ Len(history.outcome.summarized[1]) = older
            /\ \A k \in 1..older :
                   history.outcome.summarized[1][k] = history.outcome.assembled[k]
            /\ ~history.outcome.summaryFailed =>
                   /\ Len(result) = CONVERSATION_MESSAGES_THRESHOLD + 1
                   /\ result[1] =
                          [role |-> "system",
                           content |-> "Summary of previous conversation: \n"
                                       \o history.reply.text]
                   /\ IsRecentPart(Tail(result))

\* 25 persisted messages, no system prompt: one summary and the last 20.
C7_Witness ==
    /\ HistoryReturned
    /\ history.summarize
    /\ Len(history.loaded) = 25
    /\ AssembledCount = 25
    /\ ~history.outcome.summaryFailed
    /\ Len(history.outcome.summarized[1]) = 5
    /\ Len(history.outcome.result) = 21
    /\ history.reply.text = "- digest"

\* C8: above the threshold with summarize=true, a failing Summarizer (an
\* uninitialized summarization provider fails before any vendor call) does
\* not make getMessageHistory raise: it returns exactly the last threshold
\* messages, no summary prepended, after a single summarization attempt.
C8_SummarizerFailureDegrades ==
    (history.called /\ history.conversationId = StoredConversation
       /\ history.summarize
       /\ AssembledCount > CONVERSATION_MESSAGES_THRESHOLD) =>
        /\ ~history.outcome.threw
        /\ Len(history.outcome.summarized) = 1
        /\ Len(adapterCalls) <= 1
        /\ ~providers[OPENAI] =>
               history.outcome.summaryFailed /\ adapterCalls = <<>>
        /\ (adapterCalls # <<>> /\ history.reply.fault) =>
               history.outcome.summaryFailed
        /\ history.outcome.summaryFailed =>
               IsRecentPart(history.outcome.result)

C8_Witness ==
    /\ HistoryReturned
    /\ history.summarize
    /\ ~providers[OPENAI]
    /\ AssembledCount > CONVERSATION_MESSAGES_THRESHOLD
    /\ history.outcome.summaryFailed
    /\ adapterCalls = <<>>
    /\ Len(history.outcome.result) = CONVERSATION_MESSAGES_THRESHOLD

\* C9: the assembled sequence holds only user, assistant and system
\* messages: persisted messages of another role are dropped and the rest keep
\* their relative order; a stored system prompt is its first message, as a
\* system message with that prompt as content, and without one nothing is
\* prepended.
C9_AssembledFilteredWithPromptFirst ==
    HistoryReturned =>
        /\ \A k \in 1..Len(history.outcome.assembled) :
               history.outcome.assembled[k].role \in RecognizedRoles
        /\ IsAssembledSequence(history.outcome.assembled)
        /\ ~PromptStored =>
               Len(history.outcome.assembled) = Rank(Len(history.loaded))

C9_Witness ==
    /\ HistoryReturned
    /\ PromptStored
    /\ \E i \in 1..Len(history.loaded) : history.loaded[i].role = "tool"
    /\ \E i \in 1..Len(history.loaded) : history.loaded[i].role = "user"
    /\ Len(history.outcome.assembled) = Len(history.loaded)
    /\ history.outcome.assembled[1].content = systemPrompt[1]

\* C10: of two persisted messages of the conversation, the one created
\* earlier appears earlier in the sequence getMessageHistory returns,
\* whatever the order in which the store returns the rows.
C10_CreationOrder ==
    HistoryReturned =>
        \A a, b \in 1..Len(messages) :
            a < b =>
                \A i, j \in 1..Len(history.outcome.result) :
                    ( /\ history.outcome.result[i].content = messages[a].content
                      /\ history.outcome.result[j].content = messages[b].content )
                    => i < j

----------------------------------------------------------------------------
(* Claims about chunks, checked under SpecChunks *)

\* C12: chunk normalization is total: for every chunk shape it returns text
\* and never raises; a chunk with choices[0].delta.content yields that
\* content, a chunk with delta.text yields that text, and every other shape
\* (an empty object, an empty choices list, a choices entry with no delta)
\* yields the empty string.
C12_NormalizationTotal ==
    norm.called =>
        LET chunk == norm.chunk IN
        /\ ~norm.result.threw
        /\ IF /\ chunk.hasChoices /\ Len(chunk.choices) > 0
              /\ chunk.choices[1].delta.present
              /\ chunk.choices[1].delta.hasContent
           THEN norm.result.text = chunk.choices[1].delta.content
           ELSE IF /\ ~(chunk.hasChoices /\ Len(chunk.choices) > 0)
                   /\ chunk.delta.present /\ chunk.delta.hasText
           THEN norm.result.text = chunk.delta.text
           ELSE norm.result.text = <<>>

\* The text the chat route accumulates over the chunks of a stream.
RECURSIVE StreamedText(_)
StreamedText(chunks) ==
    IF chunks = <<>> THEN <<>>
    ELSE ExtractContent(Head(chunks)).text \o StreamedText(Tail(chunks))

\* C13: for each adapter and each chunk sequence its vendor emits without
\* fault, getFullCompletionFromStream returns the in-order concatenation of
\* the deltas the chat route extracts from the same chunks.
C13_FullCompletionEqualsStreamedText ==
    (completion.called /\ ~completion.stream.fault) =>
        /\ ~completion.result.threw
        /\ completion.result.text = StreamedText(completion.stream.chunks)

C13_Witness ==
    /\ completion.called
    /\ completion.provider = OPENAI
    /\ ~completion.stream.fault
    /\ completion.stream.chunks =
          << Chunk(TRUE, <<[delta |-> ContentDelta(Hello)]>>, AbsentDelta),
             Chunk(TRUE, <<[delta |-> EmptyDelta]>>, AbsentDelta) >>
    /\ completion.result.text = Hello

----------------------------------------------------------------------------
(* Claims about the chat request, checked under SpecChat *)

\* The chunks of the elements the loop of line 137 was handed.
ReceivedChunks == [i \in 1..Len(chat.received) |-> chat.received[i].chunk]

\* The events written for chunks, before any final or error event.
ContentEvents == SelectSeq(response.events, LAMBDA e : ~e.done)

\* The addMessage calls of the request for a role.
AddMessageCalls(role) ==
    SelectSeq(dbCalls, LAMBDA c : c.op = "addMessage" /\ c.role = role)

LastEvent == response.events[Len(response.events)]

\* C11 as stated: every element streamChat yields is the normalized text of
\* one vendor chunk, never a vendor-shaped chunk.
C11_StreamChatYieldsText ==
    \A i \in 1..Len(chat.received) :
        /\ chat.received[i].isText
        /\ chat.received[i].text = ExtractContent(stream.emitted[i]).text

\* C11, amended: streamChat yields the vendor's chunks as they came, in
\* order; the chat route extracts the text of each yielded chunk, and the
\* i-th content event carries the text of the i-th chunk.
C11_StreamChatYieldsVendorChunks ==
    /\ \A i \in 1..Len(chat.received) :
          /\ ~chat.received[i].isText
          /\ chat.received[i].chunk = stream.emitted[i]
    /\ \A i \in 1..Len(ContentEvents) :
          /\ i <= Len(stream.emitted)
          /\ ContentEvents[i].content = ExtractContent(stream.emitted[i]).text

C11_Witness ==
    /\ Len(chat.received) = 2
    /\ Len(ContentEvents) = 2
    /\ ContentEvents[1].content = Hello
    /\ ContentEvents[2].content = There
    /\ stream.provider = ANTHROPIC

\* C14: when the vendor stream fails after emitting k chunks, the consumer
\* of streamChat has received exactly those k chunks in vendor order and gets
\* the failure on pull k+1; the failure is never raised while the vendor has
\* not failed, and every chunk handed over stays handed over.
C14_FaultAfterChunksReceived ==
    /\ Len(chat.received) <= Len(stream.emitted)
    /\ \A i \in 1..Len(chat.received) :
          chat.received[i].chunk = stream.emitted[i]
    /\ stream.fault =>
          /\ ReceivedChunks = stream.emitted
          /\ chat.loop = "threw"
          /\ chat.error = VendorFault
          /\ chat.pulls = Len(stream.emitted) + 1
          /\ Len(ContentEvents) = Len(stream.emitted)
    /\ (chat.loop = "threw" /\ chat.error = VendorFault) => stream.fault

C14_Witness ==
    /\ stream.fault
    /\ Len(stream.emitted) = 2
    /\ chat.pulls = 3
    /\ Len(chat.received) = 2

\* C15: every summarization request goes to the OpenAI adapter with model
\* gpt-4o-mini, whatever model the chat request uses; no other adapter is
\* called for a summary.
C15_SummarizerFixedModel ==
    /\ \A i \in 1..Len(adapterCalls) :
          adapterCalls[i].method = "getFullCompletionFromStream" =>
              /\ adapterCalls[i].provider = OPENAI
              /\ adapterCalls[i].model = gpt_4o_mini
    /\ (history.called /\ history.outcome.summarized # <<>>) =>
          history.outcome.calls =
              IF providers[OPENAI]
              THEN << [provider |-> OPENAI,
                       method |-> "getFullCompletionFromStream",
                       model |-> gpt_4o_mini] >>
              ELSE <<>>

C15_Witness ==
    /\ chat.model = claude_3_haiku
    /\ chat.pc = "done"
    /\ chat.loop = "exhausted"
    /\ history.outcome.summarized # <<>>
    /\ Len(adapterCalls) = 2
    /\ adapterCalls[1].provider = OPENAI
    /\ adapterCalls[1].model = gpt_4o_mini
    /\ adapterCalls[2].provider = ANTHROPIC

C18_EventsInOrderThenOneAssistantMessage ==
    /\ chat.pc \in {"open", "pull", "persist"} => AddMessageCalls("assistant") = <<>>
    /\ chat.loop = "exhausted" =>
          /\ Len(ContentEvents) = Len(stream.emitted)
          /\ \A i \in 1..Len(stream.emitted) :
                response.events[i] =
                    ContentEvent(ExtractContent(stream.emitted[i]).text)
          /\ response.events[Len(stream.emitted) + 1] =
                FinalEvent(chat.conversationId)
          /\ chat.pc \in {"subtitle", "done"} =>
                AddMessageCalls("assistant") =
                      << DbCall("addMessage", chat.conversationId, "assistant",
                                StreamedText(stream.emitted), chat.model) >>
          /\ (chat.pc \in {"subtitle", "done"}
                /\ chat.failed # "addAssistantMessage") =>
                /\ LET rows == RowsOf(chat.conversationId) IN
                   /\ rows[Len(rows)].role = "assistant"
                   /\ rows[Len(rows)].content = Str(StreamedText(stream.emitted))
                   /\ rows[Len(rows) - 1].role = "user"

C18_Witness ==
    /\ chat.pc = "done"
    /\ chat.loop = "exhausted"
    /\ chat.model = gpt_4o
    /\ chat.conversationId = NewConversation
    /\ Len(stream.emitted) = 2
    /\ created.messages = << Row(1, "user", Hi),
                             Row(2, "assistant", Hello \o There) >>

\* C19: a chat request whose model is not listed by getAvailableModels is
\* answered with HTTP 400 "Model '<model>' is not available" and nothing
\* else happens: no conversation is created, no message persisted, no
\* history built, streamChat not called.
C19_UnavailableModelRejected ==
    LET availableModels == getAvailableModels(providers)
        listed == \E p \in DOMAIN availableModels :
                     \E i \in 1..Len(availableModels[p]) :
                         availableModels[p][i] = chat.model
    IN  (chat.pc # "idle" /\ ~listed) =>
            /\ chat.pc = "done"
            /\ response.status = 400
            /\ response.json = ModelNotAvailableError(chat.model)
            /\ response.events = <<>>
            /\ response.ended
            /\ created = NoConversation
            /\ messages \in StoredLogs
            /\ dbCalls = <<>>
            /\ ~history.called
            /\ adapterCalls = <<>>
            /\ stream = NoStream
            /\ chat.pulls = 0

C19_Witness ==
    /\ chat.pc = "done"
    /\ chat.model = claude_3_haiku
    /\ providers[OPENAI]
    /\ ~providers[ANTHROPIC]
    /\ response.status = 400

\* C20: when streaming fails, at the start or after any number of chunks,
\* the user message persisted before streaming stays persisted, addMessage
\* was called once only, for the user message, and the response is an event
\* stream whose last event carries the error, done = true and the
\* conversation id.
C20_StreamFailureKeepsUserMessage ==
    chat.loop \in {"threw", "body"} =>
        /\ chat.pc = "done"
        /\ AddMessageCalls("assistant") = <<>>
        /\ AddMessageCalls("user") =
              << DbCall("addMessage", chat.conversationId, "user",
                        chat.message, <<>>) >>
        /\ LET rows == RowsOf(chat.conversationId) IN
           rows[Len(rows)] = Row(Len(rows), "user", chat.message)
        /\ response.contentType = "text/event-stream"
        /\ response.status = 200
        /\ response.ended
        /\ Len(response.events) = Len(ContentEvents) + 1
        /\ chat.error # NoError
        /\ LastEvent.error = chat.error
        /\ LastEvent.done
        /\ LastEvent.conversation_id = chat.conversationId
        /\ chat.conversationId \in {StoredConversation, NewConversation}

C20_Witness ==
    /\ chat.loop = "threw"
    /\ stream.fault
    /\ Len(stream.emitted) = 1
    /\ chat.conversationId = StoredConversation
    /\ Len(response.events) = 2

----------------------------------------------------------------------------
(* Claims about the summary request, checked under SpecScrub *)

LowerCase(t) ==
    [x \in 1..Len(t) |->
        IF t[x] = "I" THEN "i" ELSE IF t[x] = "M" THEN "m"
        ELSE IF t[x] = "G" THEN "g" ELSE IF t[x] = "S" THEN "s"
        ELSE IF t[x] = "R" THEN "r" ELSE IF t[x] = "C" THEN "c" ELSE t[x]]

\* A markdown image reference: ![ ... ]( ... )
HasMarkdownImage(t) ==
    \E i \in 1..Len(t) :
        /\ At(t, i, <<"!", "[">>)
        /\ \E j \in (i + 2)..Len(t) :
              /\ At(t, j, <<"]", "(">>)
              /\ \E k \in (j + 2)..Len(t) : t[k] = ")"

\* An HTML img tag; element names are case-insensitive.
HasImgTag(t) ==
    \E i \in 1..Len(t) :
        /\ At(LowerCase(t), i, <<"<", "i", "m", "g">>)
        /\ \E k \in (i + 4)..Len(t) : t[k] = ">"

\* A base64 image data URI: data:image/<type>[;parameter];base64,<data>
HasDataUri(t) ==
    \E i \in 1..Len(t) :
        /\ At(t, i, <<"d", "a", "t", "a", ":", "i", "m", "a", "g", "e", "/">>)
        /\ \E j \in (i + 12)..Len(t) :
              At(t, j, <<";", "b", "a", "s", "e", "6", "4", ",">>)

\* A bracketed attachment marker.
HasAttachmentMarker(t) ==
    \E i \in 1..Len(t) :
        /\ At(t, i, <<"[", "a", "t", "t", "a", "c", "h", "m", "e", "n", "t", ":">>)
        /\ \E k \in (i + 12)..Len(t) : t[k] = "]"

\* C16: in the transcript sent to the summarization model every markdown
\* image reference, HTML img tag, base64 image data URI and bracketed
\* attachment marker of the messages has been replaced by '<resource />':
\* the transcript contains none of them.
C16_TranscriptHasNoReferences ==
    (scrub.called /\ ~scrub.threw) =>
        /\ ~HasMarkdownImage(scrub.transcript)
        /\ ~HasImgTag(scrub.transcript)
        /\ ~HasDataUri(scrub.transcript)
        /\ ~HasAttachmentMarker(scrub.transcript)

\* ---------------------------------------------------------------------
\* Claims about the conversation of a chat request.

CreateCalls == SelectSeq(dbCalls, LAMBDA c : c.op = "createConversation")

\* The request passed the availability check and the creation step.
PastCreate ==
    /\ chat.pc \notin {"idle", "create"}
    /\ modelFound(providers, chat.model)

\* The title of a conversation created for a message.
TitleOf(message) ==
    IF Len(message) > 50
    THEN SubSeq(message, 1, 50) \o <<".", ".", ".">>
    ELSE message

\* The user message, the history lookup, the assistant message, the subtitle
\* and the final event all use the conversation id.
UsesConversation(id) ==
    /\ \A i \in 1..Len(dbCalls) :
          dbCalls[i].op # "createConversation" => dbCalls[i].conversationId = id
    /\ history.called => history.conversationId = id
    /\ \A i \in 1..Len(response.events) :
          response.events[i].done => response.events[i].conversation_id = id

\* One conversation is created, first of all store calls, titled with the
\* user message, and everything after uses the new id.
CreatedThenUsed ==
    /\ Len(CreateCalls) = 1
    /\ dbCalls[1].op = "createConversation"
    /\ dbCalls[1].content = TitleOf(chat.message)
    /\ chat.failed # "createConversation" =>
          /\ created.exists
          /\ created.id = NewConversation
          /\ created.title = TitleOf(chat.message)
          /\ UsesConversation(NewConversation)
    /\ chat.failed = "createConversation" => Len(dbCalls) = 1

\* No conversation is created and everything uses the given id.
GivenUsed ==
    /\ CreateCalls = <<>>
    /\ ~created.exists
    /\ UsesConversation(chat.conversation_id[1])

\* C21 as stated: a chat request creates a conversation exactly when it
\* carries no conversation_id; then one conversation is created before the
\* user message is added, titled with the user message (first 50 characters
\* and '...' when longer), and every later step uses the new id; with a
\* conversation_id nothing is created and every step uses the given id.
C21_CreatedIffNoConversationId ==
    PastCreate =>
        IF chat.conversation_id = <<>> THEN CreatedThenUsed ELSE GivenUsed

\* C21 amended: the conversation is created exactly when the conversation_id
\* is absent or the empty string; a non-empty conversation_id is used as
\* given.
C21_CreatedIffNoOrEmptyConversationId ==
    PastCreate =>
        IF chat.conversation_id = <<>> \/ chat.conversation_id = <<"">>
        THEN CreatedThenUsed
        ELSE GivenUsed

C21_Witness ==
    /\ chat.pc = "done"
    /\ chat.conversation_id = <<"">>
    /\ chat.loop = "exhausted"
    /\ chat.failed = ""
    /\ created.exists
    /\ Len(dbCalls) = 4

C21_WitnessLongTitle ==
    /\ chat.pc = "done"
    /\ chat.message = Long
    /\ created.exists
    /\ Len(created.title) = 53

DoneEvents == SelectSeq(response.events, LAMBDA e : e.done)

\* C22: every chat request that began streaming ends its event stream with
\* exactly one event carrying done = true: no event follows a done event,
\* every event before it has done = false, and a finished request has
\* written one; this on success and on every failure after streaming began,
\* a failure to persist the assistant message or to update the subtitle
\* included.
C22_ExactlyOneDoneEventLast ==
    /\ \A i \in 1..(Len(response.events) - 1) : ~response.events[i].done
    /\ (chat.pc = "done" /\ chat.loop # "") => Len(DoneEvents) = 1

SubtitleCalls ==
    SelectSeq(dbCalls, LAMBDA c : c.op = "updateConversationSubtitle")

\* C23: the subtitle the chat route writes is taken from the head of the
\* first assistant response and is at most 50 characters long, and it is
\* written only when the conversation holds exactly one assistant message
\* after the response is persisted.
C23_SubtitleAtMostFifty ==
    \A i \in 1..Len(SubtitleCalls) :
        LET subtitle == SubtitleCalls[i].content
            rows == RowsOf(chat.conversationId)
        IN  /\ Len(subtitle) <= 50
            /\ subtitle = SubSeq(chat.fullContent, 1, Len(subtitle))
            /\ Len(SelectSeq(rows, LAMBDA msg : msg.role = "assistant")) = 1

\* A model that is not in the table and resolves by prefix inference only.
PrefixOnly(model) ==
    /\ ~InTable(model)
    /\ ~getProviderForModel(model).threw

\* C28: a model that passes the route's availability check resolves in
\* streamChat to a constructed adapter: after the check streamChat fails
\* neither with the unsupported-model nor with the not-initialized error;
\* and a model that only prefix inference resolves is rejected by the route
\* with 400 before anything else happens.
C28_CheckedModelResolves ==
    /\ (chat.pc # "idle" /\ modelFound(providers, chat.model)) =>
          LET d == streamChat(providers, chat.model) IN
          /\ ~d.threw
          /\ providers[d.provider]
          /\ chat.error.name \notin
                {UnsupportedModelError(chat.model).name,
                 ProviderNotInitializedError(providers, OPENAI).name}
          /\ stream.state # "unopened" => stream.provider = d.provider
          /\ chat.pc \in {"pull", "persist", "subtitle"} =>
                stream.state # "unopened"
    /\ (chat.pc # "idle" /\ PrefixOnly(chat.model)) =>
          /\ chat.pc = "done"
          /\ response.status = 400
          /\ response.json = ModelNotAvailableError(chat.model)
          /\ response.events = <<>>
          /\ dbCalls = <<>>
          /\ adapterCalls = <<>>
          /\ stream.state = "unopened"

C28_Witness ==
    /\ chat.pc = "pull"
    /\ chat.model = claude_3_haiku
    /\ stream.state = "open"
    /\ stream.provider = ANTHROPIC
    /\ ~providers[OPENAI]

C28_WitnessPrefixOnly ==
    /\ chat.pc = "done"
    /\ PrefixOnly(chat.model)
    /\ providers[OPENAI]
    /\ response.status = 400

\* ---------------------------------------------------------------------
\* The stored system prompt on the summarization path.

StoredPromptMessage == [role |-> "system", content |-> systemPrompt[1]]

\* C30: when getMessageHistory summarizes (summarize = true and more
\* assembled messages than the threshold) a conversation with a stored
\* system prompt, the prepended prompt is the first of the older messages
\* handed to the Summarizer and no message of the result is the stored
\* prompt: the head of the result is the summary message, or, when the
\* Summarizer failed, the first of the recent messages.
C30_StoredPromptFallsInOlder ==
    (history.called /\ history.conversationId = StoredConversation
       /\ history.summarize /\ Truthy(systemPrompt)
       /\ Len(history.outcome.assembled) > CONVERSATION_MESSAGES_THRESHOLD) =>
        LET out == history.outcome
            n == Len(out.assembled)
            firstRecent == out.assembled[n - CONVERSATION_MESSAGES_THRESHOLD + 1]
        IN  /\ ~out.threw
            /\ out.assembled[1] = StoredPromptMessage
            /\ Len(out.summarized) = 1
            /\ out.summarized[1] # <<>>
            /\ out.summarized[1][1] = StoredPromptMessage
            /\ \A i \in 1..Len(out.result) : out.result[i] # StoredPromptMessage
            /\ IF out.summaryFailed
               THEN /\ Len(out.result) = CONVERSATION_MESSAGES_THRESHOLD
                    /\ out.result[1] = firstRecent
               ELSE /\ Len(out.result) = CONVERSATION_MESSAGES_THRESHOLD + 1
                    /\ out.result[1] =
                          [role |-> "system",
                           content |-> "Summary of previous conversation: \n"
                                       \o history.reply.text]
                    /\ out.result[2] = firstRecent

\* Exactly threshold persisted messages and a stored prompt.
C30_Witness ==
    /\ history.called
    /\ history.summarize
    /\ Truthy(systemPrompt)
    /\ Len(history.loaded) = CONVERSATION_MESSAGES_THRESHOLD
    /\ Len(history.outcome.assembled) = CONVERSATION_MESSAGES_THRESHOLD + 1
    /\ history.outcome.summarized = << <<StoredPromptMessage>> >>
    /\ ~history.outcome.summaryFailed

C30_WitnessSummarizerFailed ==
    /\ history.called
    /\ history.summarize
    /\ Truthy(systemPrompt)
    /\ Len(history.outcome.assembled) > CONVERSATION_MESSAGES_THRESHOLD
    /\ history.outcome.summaryFailed

\* ---------------------------------------------------------------------
\* Reading a conversation.

\* C24: GET /conversations/:conversationId answers 404 exactly when the
\* store holds no such conversation, 500 whenever the lookup fails, and 200
\* with the conversation otherwise: a failure of the store is never reported
\* as 404.
C24_LookupStatus ==
    lookup.called =>
        lookup.status =
            IF lookup.outcome = "fault" THEN 500
            ELSE IF lookup.outcome = "none" THEN 404
            ELSE 200

\* ---------------------------------------------------------------------
\* The Anthropic request.

\* C27: the request the Anthropic adapter sends loses no content of the
\* messages it was given: its messages are the user and assistant messages
\* in their relative order, and the contents of all system messages, joined
\* into one system prompt, are sent with the request.
C27_AnthropicRequestKeepsContent ==
    vendorRequest.called =>
        LET input == vendorRequest.input
            systemMessages == SelectSeq(input, LAMBDA msg : msg.role = "system")
        IN  /\ vendorRequest.messages =
                  SelectSeq(input, LAMBDA msg : msg.role # "system")
            /\ systemMessages # <<>> =>
                  /\ vendorRequest.hasSystem
                  /\ vendorRequest.system = JoinContents(systemMessages, "\n\n")

\* ---------------------------------------------------------------------
\* Construction of the orchestrator.

\* C25: constructing the orchestrator never fails; each adapter is
\* constructed on its own: an adapter whose credential is absent is not
\* constructed (its slot stays undefined) and does not keep the other from
\* being constructed, and a missing adapter gives an error only when a call
\* is routed to it.
C25_AdapterConstructedIffCredential ==
    construction.called =>
        /\ ~construction.threw
        /\ \A p \in Provider : providers[p] <=> construction.hasKey[p]
        /\ (call.op # "none" /\ call.threw
              /\ call.error.name = ProviderNotInitializedError(providers, OPENAI).name) =>
                \E p \in Provider : ~providers[p] /\ call.error.subject = <<p>>

\* ---------------------------------------------------------------------
\* The first-message previews.

RowsWithRole(role) == SelectSeq(previews.rows, LAMBDA row : row.role = role)

PreviewColumn(role) ==
    IF role = "user" THEN previews.firstUserMessage
    ELSE previews.firstAssistantMessage

\* Every addMessage call that was made has returned.
AddsReturned ==
    \A i \in 1..MaxAdds : previews.adds[i].pc \in {"idle", "done"}

\* C29: the preview of a role is written by the first message of that role
\* and never changed afterwards, whatever the sequence and interleaving of
\* addMessage calls: a preview that is set is the preview of the earliest
\* persisted message of its role, it is set once the calls have returned,
\* and it is at most 100 characters long.
C29_PreviewOfEarliestMessage ==
    \A role \in {"user", "assistant"} :
        /\ PreviewColumn(role) # <<>> =>
              /\ RowsWithRole(role) # <<>>
              /\ PreviewColumn(role)[1] = Preview(RowsWithRole(role)[1].content)
              /\ Len(PreviewColumn(role)[1]) <= 100
        /\ (AddsReturned /\ RowsWithRole(role) # <<>>) =>
              PreviewColumn(role) # <<>>

\* ---------------------------------------------------------------------
\* Two chat requests in flight.

\* The running request, as a context.
Running ==
    [chat |-> chat, response |-> response, stream |-> stream,
     history |-> history, adapterCalls |-> adapterCalls, dbCalls |-> dbCalls]

\* The rows the store holds for a conversation, and for all the others.
StoreRows(conversationId) ==
    IF conversationId = StoredConversation THEN messages
    ELSE IF created.exists /\ conversationId = created.id THEN created.messages
    ELSE <<>>

ForeignRows(conversationId) ==
    IF conversationId = StoredConversation THEN created.messages ELSE messages

InRows(row, rows) == \E i \in 1..Len(rows) : rows[i] = row

\* A request sees and writes only what is its own.
Isolated(ctx) ==
    /\ ctx.history.called =>
          \A i \in 1..Len(ctx.history.loaded) :
              /\ InRows(ctx.history.loaded[i], StoreRows(ctx.chat.conversationId))
              /\ ~InRows(ctx.history.loaded[i], ForeignRows(ctx.chat.conversationId))
    /\ Len(ctx.chat.received) = Len(ctx.stream.emitted)
    /\ \A i \in 1..Len(ctx.chat.received) :
          ctx.chat.received[i].chunk = ctx.stream.emitted[i]
    /\ ctx.chat.fullContent = StreamedText(ctx.stream.emitted)
    /\ \A i \in 1..Len(ctx.dbCalls) :
          ctx.dbCalls[i].op = "addMessage" =>
              /\ ctx.dbCalls[i].conversationId = ctx.chat.conversationId
              /\ ctx.dbCalls[i].content =
                    IF ctx.dbCalls[i].role = "user" THEN ctx.chat.message
                    ELSE StreamedText(ctx.stream.emitted)
    /\ (ctx.chat.pc \in {"subtitle", "done"} /\ ctx.chat.loop = "exhausted") =>
          LET rows == StoreRows(ctx.chat.conversationId) IN
          /\ rows # <<>>
          /\ rows[Len(rows)].role = "assistant"
          /\ rows[Len(rows)].content = Str(StreamedText(ctx.stream.emitted))
          /\ rows[Len(rows) - 1].content = Str(ctx.chat.message)

\* C26: two chat requests on different conversations do not interfere,
\* however their steps interleave: the history of each holds only messages
\* of its own conversation, the content each accumulates and persists is
\* made of the deltas of its own stream only, and the shared orchestrator
\* state is not written.
C26_ConcurrentRequestsIsolated ==
    /\ Isolated(Running)
    /\ Isolated(other)
    /\ providers = [p \in Provider |-> TRUE]

\* Both requests ran to their end, interleaved.
C26_Witness ==
    /\ chat.pc = "done"
    /\ other.chat.pc = "done"
    /\ chat.loop = "exhausted"
    /\ other.chat.loop = "exhausted"
    /\ chat.fullContent = Hello
    /\ other.chat.fullContent = There \o There
    /\ Len(messages) = 4
    /\ Len(created.messages) = 2
    /\ history.loaded # <<>>
    /\ other.history.loaded # <<>>

====
